---- MODULE Spec2Model ----
(***************************************************************************)
(* Run lifecycle of the MBSS test portal backend: the run store (runs and  *)
(* run_tests tables), the queue processor, the two executor variants, the  *)
(* cancel endpoint, process shutdown and startup recovery.                 *)
(*                                                                         *)
(* Node.js runs every handler to its next await without interruption, so   *)
(* one action is one such stretch: a queue tick includes the synchronous   *)
(* start of executeRun, and the continuation after a driver exits includes *)
(* the rest of the for-loop up to the next driver spawn or the end-of-run  *)
(* status write.                                                           *)
(*                                                                         *)
(* Timestamps: started_at / finished_at hold 0 for SQL NULL and otherwise  *)
(* the number of times the column was written (every write stores a fresh  *)
(* "now", so a rewrite is visible as a changed value).                     *)
(***************************************************************************)
EXTENDS Integers, Sequences, FiniteSets, TLC

MaxRuns == 2
MaxTests == 2
MaxRows == 3
maxConcurrentRuns == 1

MaxTime == 3
MaxLogLen == 8
MaxExecutions == 10
DefaultMinExecutions == 5
retentionDays == 1

RunIds == 1..MaxRuns
TestKeys == 1..MaxTests
Times == 1..MaxTime

\* environments.json
Environments == {"dev", "prod"}

\* the schedules table ORDER BY name (getEnabledSchedules)
ScheduleOrder == <<"hourly", "nightly">>

ScheduleIds == {ScheduleOrder[i] : i \in DOMAIN ScheduleOrder}

\* schedule_id NULL
NoScheduleId == "null"

Variants == {"subprocess", "inprocess"}
DriverOutcomes == {"exit0", "exit1", "spawnError"}
TerminalRunStatus == {"passed", "failed", "cancelled"}
InterruptedMsg == "Test execution interrupted by server restart"
NotFoundMsg == "Test definition not found"

VARIABLES
  variant,    \* which executor module the build carries
  phase,      \* position of start(): "down", "recovered", "up"
  runs,       \* runs table: run id -> row
  runTests,   \* run_tests table: run id -> (test key -> row)
  testDefs,   \* test keys that have a test_definitions row
  exec,       \* executor tasks of this process: run id -> local state
  nextRunId,  \* next fresh run id (uuidv4 and created_at order)
  lastOp,     \* the operation that produced this state, with its response
  runMeta,    \* runs table, columns fixed at creation: run id -> row
  schedules,  \* schedules table: schedule id -> row
  clock,      \* wall-clock time (new Date())
  activeTests,\* test keys whose test_definitions row has active = 1
  cfgIn,      \* buildEffectiveConfig: the test definition and run given to it
  cfgOut,     \* buildEffectiveConfig: the configuration returned
  logRow,     \* log polling: status of the polled RunTest row
  logFile,    \* log polling: the test's console.log
  logPoll,    \* log polling: the client's offset and what it received
  logChild,   \* log polling: the driver subprocess of the polled test
  catalog,    \* test_definitions table: row id -> row
  nextTestId, \* next fresh test_definitions id (uuidv4)
  artifactDirs, \* run ids that have a directory under artifactRoot
  liveShots,    \* <<run id, test key>> whose directory holds a live.jpg
  flakyIn,      \* the joined run_tests rows and the options of a flaky-test query
  flakyOut      \* what the query returned

\* the run lifecycle state
coreVars == <<variant, phase, runs, runTests, testDefs, exec, nextRunId, lastOp>>

schedVars == <<schedules, clock>>

cfgVars == <<cfgIn, cfgOut>>

logVars == <<logRow, logFile, logPoll, logChild>>

catVars == <<catalog, nextTestId>>

flakyVars == <<flakyIn, flakyOut>>

vars == <<variant, phase, runs, runTests, testDefs, exec, nextRunId, lastOp,
          runMeta, schedules, clock, activeTests, cfgIn, cfgOut, logRow, logFile, logPoll,
          logChild,
          catalog, nextTestId, artifactDirs, liveShots, flakyIn, flakyOut>>

----------------------------------------------------------------------------
(* Run store: src/portal/backend/src/db/models/runs.ts *)

NoSummary == [persisted |-> FALSE, totalTests |-> 0, passed |-> 0, failed |-> 0, skipped |-> 0]

NewRun(id) ==
  [status |-> "queued", startedAt |-> 0, finishedAt |-> 0,
   summary |-> NoSummary, createdAt |-> id]

NewRunTest ==
  [status |-> "pending", startedAt |-> FALSE, finishedAt |-> FALSE, errorMessage |-> "null"]

\* createRun: one transaction inserting the run and one pending row per test
createRunRow(rs, id) == (id :> NewRun(id)) @@ rs

createRunTests(rts, id, keys) == (id :> [k \in keys |-> NewRunTest]) @@ rts

\* createRun: the columns no statement of the run's life cycle writes
createRunMeta(rm, id, scheduleId, environment) ==
  (id :> [scheduleId |-> scheduleId, environment |-> environment,
          triggerType |-> IF scheduleId = NoScheduleId THEN "manual" ELSE "schedule"]) @@ rm

getActiveRunsForSchedule(rs, rm, scheduleId) ==
  {id \in DOMAIN rs : rm[id].scheduleId = scheduleId /\ rs[id].status \in {"queued", "running"}}

RECURSIVE rowCount(_)
\* number of run_tests rows in the table
rowCount(rts) ==
  IF DOMAIN rts = {} THEN 0
  ELSE LET id == CHOOSE i \in DOMAIN rts : TRUE
       IN Cardinality(DOMAIN rts[id]) + rowCount([i \in DOMAIN rts \ {id} |-> rts[i]])

countRunningRuns(rs) == Cardinality({id \in DOMAIN rs : rs[id].status = "running"})

\* getNextQueuedRun ordering by created_at DESC
getNextQueuedRunNewest(rs) ==
  LET queued == {id \in DOMAIN rs : rs[id].status = "queued"}
  IN IF queued = {} THEN 0
     ELSE CHOOSE id \in queued : \A o \in queued : rs[id].createdAt >= rs[o].createdAt

\* oldest queued run by created_at, 0 when there is none
getNextQueuedRun(rs) ==
  LET queued == {id \in DOMAIN rs : rs[id].status = "queued"}
  IN IF queued = {} THEN 0
     ELSE CHOOSE id \in queued : \A o \in queued : rs[id].createdAt <= rs[o].createdAt

\* updateRunStatus without the started_at branch
updateRunStatusNoStart(rs, id, status) ==
  IF id \notin DOMAIN rs THEN rs
  ELSE IF status \in {"passed", "failed", "skipped", "cancelled"}
       THEN [rs EXCEPT ![id].status = status, ![id].finishedAt = @ + 1]
  ELSE [rs EXCEPT ![id].status = status]

updateRunStatus(rs, id, status) ==
  IF id \notin DOMAIN rs THEN rs
  ELSE IF status = "running"
       THEN [rs EXCEPT ![id].status = status, ![id].startedAt = @ + 1]
  ELSE IF status \in {"passed", "failed", "skipped", "cancelled"}
       THEN [rs EXCEPT ![id].status = status, ![id].finishedAt = @ + 1]
  ELSE [rs EXCEPT ![id].status = status]

updateRunSummary(rs, id, summary) ==
  IF id \notin DOMAIN rs THEN rs
  ELSE [rs EXCEPT ![id].summary = [summary EXCEPT !.persisted = TRUE]]

\* cancelRun without the status condition of its WHERE clause
cancelRunAnyStatus(rs, id) ==
  IF id \in DOMAIN rs
  THEN [rs EXCEPT ![id].status = "cancelled", ![id].finishedAt = @ + 1]
  ELSE rs

\* the conditional UPDATE of cancelRun
cancelRun(rs, id) ==
  IF id \in DOMAIN rs /\ rs[id].status \in {"queued", "running"}
  THEN [rs EXCEPT ![id].status = "cancelled", ![id].finishedAt = @ + 1]
  ELSE rs

RECURSIVE SortedSeq(_)
SortedSeq(S) ==
  IF S = {} THEN <<>>
  ELSE LET m == CHOOSE x \in S : \A y \in S : x <= y
       IN <<m>> \o SortedSeq(S \ {m})

\* getRunTests with ORDER BY test_key DESC
getRunTestsDescending(rts, id) ==
  IF id \in DOMAIN rts
  THEN LET keys == SortedSeq(DOMAIN rts[id])
       IN [i \in 1..Len(keys) |-> keys[Len(keys) + 1 - i]]
  ELSE <<>>

\* getRunTests: the run's test keys ORDER BY test_key
getRunTests(rts, id) == IF id \in DOMAIN rts THEN SortedSeq(DOMAIN rts[id]) ELSE <<>>

\* updateRunTestStatus whose `failed` also fails the rows still pending
updateRunTestStatusCascade(tests, key, status, errorMessage) ==
  IF key \notin DOMAIN tests THEN tests
  ELSE IF status = "running"
       THEN [tests EXCEPT ![key].status = status, ![key].startedAt = TRUE]
  ELSE IF status = "failed"
       THEN [k \in DOMAIN tests |->
               IF k = key \/ tests[k].status = "pending"
               THEN [tests[k] EXCEPT !.status = status, !.finishedAt = TRUE,
                                     !.errorMessage = errorMessage]
               ELSE tests[k]]
  ELSE IF status \in {"passed", "skipped"}
       THEN [tests EXCEPT ![key].status = status, ![key].finishedAt = TRUE,
                          ![key].errorMessage = errorMessage]
  ELSE [tests EXCEPT ![key].status = status]

updateRunTestStatus(tests, key, status, errorMessage) ==
  IF key \notin DOMAIN tests THEN tests
  ELSE IF status = "running"
       THEN [tests EXCEPT ![key].status = status, ![key].startedAt = TRUE]
  ELSE IF status \in {"passed", "failed", "skipped"}
       THEN [tests EXCEPT ![key].status = status, ![key].finishedAt = TRUE,
                          ![key].errorMessage = errorMessage]
  ELSE [tests EXCEPT ![key].status = status]

\* skipPendingTests without its status condition
skipPendingTestsEveryRow(tests) ==
  [k \in DOMAIN tests |-> [tests[k] EXCEPT !.status = "skipped"]]

skipPendingTests(tests) ==
  [k \in DOMAIN tests |->
     IF tests[k].status = "pending" THEN [tests[k] EXCEPT !.status = "skipped"] ELSE tests[k]]

----------------------------------------------------------------------------
(* Startup recovery: src/portal/backend/src/core/startup-cleanup.ts *)

\* the orphan query selecting only the running runs
orphanedRunsRunningOnly(rs) == {id \in DOMAIN rs : rs[id].status = "running"}

orphanedRuns(rs) == {id \in DOMAIN rs : rs[id].status \in {"running", "queued"}}

\* the recovery UPDATE of runs without finished_at
cleanupRunsNoStamp(rs) ==
  [id \in DOMAIN rs |->
     IF id \in orphanedRuns(rs) THEN [rs[id] EXCEPT !.status = "failed"] ELSE rs[id]]

\* the UPDATE runs statement of the recovery transaction
cleanupRuns(rs) ==
  [id \in DOMAIN rs |->
     IF id \in orphanedRuns(rs)
     THEN [rs[id] EXCEPT !.status = "failed", !.finishedAt = @ + 1]
     ELSE rs[id]]

\* the UPDATE run_tests statement of the recovery transaction
cleanupRunTests(rs, rts) ==
  [id \in DOMAIN rts |->
     IF id \in orphanedRuns(rs)
     THEN [k \in DOMAIN rts[id] |->
             IF rts[id][k].status \in {"pending", "running"}
             THEN [rts[id][k] EXCEPT !.status = "failed", !.finishedAt = TRUE,
                                     !.errorMessage = InterruptedMsg]
             ELSE rts[id][k]]
     ELSE rts[id]]

----------------------------------------------------------------------------
(* Executor: src/unnamed/part_011 (driver subprocess) and                  *)
(* src/portal/backend/src/core/executor/index.ts (in-process browser)      *)

TestsOf(rts, id) == IF id \in DOMAIN rts THEN rts[id] ELSE <<>>

\* currentRun?.status === 'cancelled'
isCancelled(rs, id) == id \in DOMAIN rs /\ rs[id].status = "cancelled"

\* a result mapping that ignores the exit code
resultStatusAlwaysPassed(outcome) == "passed"

\* result.success ? 'passed' : 'failed'
resultStatus(outcome) == IF outcome = "exit0" THEN "passed" ELSE "failed"

resultMessage(outcome) == IF outcome = "exit0" THEN "null" ELSE "driver error"

countResult(summary, status) ==
  IF status = "passed" THEN [summary EXCEPT !.passed = @ + 1]
  ELSE [summary EXCEPT !.failed = @ + 1]

\* a final status that ignores the failures
finalStatusAlwaysPassed(summary) == "passed"

\* a final status that fails a run without tests
finalStatusEmptyFails(summary) ==
  IF summary.failed > 0 \/ summary.totalTests = 0 THEN "failed" ELSE "passed"

finalStatus(summary) ==
  IF summary.failed > 0 THEN "failed"
  ELSE IF summary.passed = summary.totalTests THEN "passed"
  ELSE "passed"

\* executeTest after the driver ended: the in-process executor unlinks
\* live.jpg (executor/index.ts 208-211), the driver-subprocess executor has
\* no statement on the file
removeLiveScreenshot(shots, id, key) ==
  IF variant = "inprocess" THEN shots \ {<<id, key>>} ELSE shots

\* The for-loop of executeRun from test number i up to the next await.
\* cancelled is the re-read run status (it cannot change inside one stretch);
\* fsOk = FALSE makes executeTest throw when it creates the artifact directory.
\* pc: "awaitDriver" (a driver was spawned), "completed" (every test visited),
\* "break" (cancellation observed), "threw" (uncaught error).
RECURSIVE runLoop(_, _, _, _, _, _)
runLoop(tests, summary, keys, i, cancelled, fsOk) ==
  IF i > Len(keys)
  THEN [tests |-> tests, summary |-> summary, idx |-> i, pc |-> "completed"]
  ELSE IF cancelled
  THEN [tests |-> skipPendingTests(tests), summary |-> summary, idx |-> i, pc |-> "break"]
  ELSE IF keys[i] \notin testDefs
  THEN runLoop(updateRunTestStatus(tests, keys[i], "skipped", NotFoundMsg),
               [summary EXCEPT !.skipped = @ + 1], keys, i + 1, cancelled, fsOk)
  ELSE IF ~fsOk
  THEN [tests |-> tests, summary |-> summary, idx |-> i, pc |-> "threw"]
  ELSE [tests |-> updateRunTestStatus(tests, keys[i], "running", "null"),
        summary |-> summary, idx |-> i, pc |-> "awaitDriver"]

\* the catch block of executeRun: only the in-process variant persists the summary
catchRun(rs, id, summary) ==
  IF variant = "inprocess"
  THEN updateRunStatus(updateRunSummary(rs, id, summary), id, "failed")
  ELSE updateRunStatus(rs, id, "failed")

\* the end of executeRun: summary and final status, written when the loop is left
endRun(rs, id, summary) ==
  updateRunStatus(updateRunSummary(rs, id, summary), id, finalStatus(summary))

settleRun(rs, id, res) ==
  IF res.pc = "awaitDriver" THEN rs
  ELSE IF res.pc = "threw" THEN catchRun(rs, id, res.summary)
  ELSE endRun(rs, id, res.summary)

\* the executor tasks after run id's task reached res: a task that returned
\* is gone, one that awaits a driver keeps its locals
taskAfter(ex, id, keys, res) ==
  IF res.pc = "awaitDriver"
  THEN (id :> [pc |-> res.pc, keys |-> keys, idx |-> res.idx, summary |-> res.summary]) @@ ex
  ELSE [i \in DOMAIN ex \ {id} |-> ex[i]]

\* one uninterrupted stretch of the executor of run id, from test number i;
\* how it ended is res.pc
continueRun(rs, id, tests, summary, keys, i, fsOk) ==
  LET res == runLoop(tests, summary, keys, i, isCancelled(rs, id), fsOk)
  IN /\ runTests' = [runTests EXCEPT ![id] = res.tests]
     /\ runs' = settleRun(rs, id, res)
     /\ exec' = taskAfter(exec, id, keys, res)

\* executeRun awaited to the run's end, every driver exiting 0
executeRunAwaited(id, fsOk) ==
  LET keys == getRunTests(runTests, id)
      summary == [NoSummary EXCEPT !.totalTests = Len(keys), !.passed = Len(keys)]
  IN /\ runs' = endRun(updateRunStatus(runs, id, "running"), id, summary)
     /\ runTests' = [runTests EXCEPT ![id] =
                       [k \in DOMAIN runTests[id] |->
                          [runTests[id][k] EXCEPT !.status = "passed", !.startedAt = TRUE,
                                                   !.finishedAt = TRUE]]]
     /\ UNCHANGED exec

\* executeRun without its first statement, updateRunStatus(runId, 'running')
executeRunStaysQueued(id, fsOk) ==
  LET keys == getRunTests(runTests, id)
  IN IF variant = "inprocess"
     THEN /\ exec' = (id :> [pc |-> "launching", keys |-> <<>>, idx |-> 0,
                             summary |-> NoSummary]) @@ exec
          /\ UNCHANGED <<runs, runTests>>
     ELSE continueRun(runs, id, TestsOf(runTests, id),
                      [NoSummary EXCEPT !.totalTests = Len(keys)], keys, 1, fsOk)

\* executeRun from its first line to its first await
executeRun(id, fsOk) ==
  LET rs == updateRunStatus(runs, id, "running")
      keys == getRunTests(runTests, id)
  IN IF variant = "inprocess"
     THEN /\ runs' = rs
          /\ exec' = (id :> [pc |-> "launching", keys |-> <<>>, idx |-> 0,
                             summary |-> NoSummary]) @@ exec
          /\ UNCHANGED runTests
     ELSE continueRun(rs, id, TestsOf(runTests, id),
                      [NoSummary EXCEPT !.totalTests = Len(keys)], keys, 1, fsOk)

\* executeRun when mkdirSync of the run's artifact directory throws: the run
\* was set running, the statement stands before the try block, so the
\* promise rejects, processQueue logs the error, and nothing else is written
executeRunMkdirThrows(id) ==
  /\ runs' = updateRunStatus(runs, id, "running")
  /\ UNCHANGED <<runTests, exec>>

----------------------------------------------------------------------------
(* Scheduler: src/portal/backend/src/core/startup-cleanup.ts 61-238        *)
(*                                                                         *)
(* The cron expression of schedule s fires at every time that is a         *)
(* multiple of cronEvery(s); last_triggered_at 0 is NULL.                  *)

cronEvery(s) == IF s = "hourly" THEN 1 ELSE 2

scheduleEnv(s) == IF s = "hourly" THEN "dev" ELSE "prod"

\* createSchedule: enabled, never triggered
NewSchedule == [enabled |-> TRUE, lastTriggeredAt |-> 0]

\* toggleScheduleEnabled(id, enabled)
toggleScheduleEnabled(schedule, enabled) == [schedule EXCEPT !.enabled = enabled]

\* interval.next(): the first firing strictly after currentDate
cronNext(every, currentDate) == ((currentDate \div every) + 1) * every

\* currentDate is lastTriggeredAt || new Date(0)
isScheduleDue(sch, s, now) == cronNext(cronEvery(s), sch[s].lastTriggeredAt) <= now

\* updateScheduleLastTriggered writing nothing
updateScheduleLastTriggeredNoWrite(sch, s, now) == sch

updateScheduleLastTriggered(sch, s, now) == [sch EXCEPT ![s].lastTriggeredAt = now]

\* the tables a scheduler tick reads and writes
schedulerStore == [runs |-> runs, runTests |-> runTests, runMeta |-> runMeta,
                   schedules |-> schedules, nextRunId |-> nextRunId]

\* triggerSchedule without the overlap check
triggerScheduleNoOverlapCheck(st, s, keys, now) ==
  [runs |-> createRunRow(st.runs, st.nextRunId),
   runTests |-> createRunTests(st.runTests, st.nextRunId, keys),
   runMeta |-> createRunMeta(st.runMeta, st.nextRunId, s, scheduleEnv(s)),
   schedules |-> updateScheduleLastTriggered(st.schedules, s, now),
   nextRunId |-> st.nextRunId + 1]

\* triggerSchedule for schedule s whose selector resolves to keys; both
\* branches on tests.length create the run and advance last_triggered_at
triggerSchedule(st, s, keys, now) ==
  IF getActiveRunsForSchedule(st.runs, st.runMeta, s) # {}
  THEN st
  ELSE [runs |-> createRunRow(st.runs, st.nextRunId),
        runTests |-> createRunTests(st.runTests, st.nextRunId, keys),
        runMeta |-> createRunMeta(st.runMeta, st.nextRunId, s, scheduleEnv(s)),
        schedules |-> updateScheduleLastTriggered(st.schedules, s, now),
        nextRunId |-> st.nextRunId + 1]

\* getTestsForSelector: the active tests among those the selector names
getTestsForSelector(selected) == selected \cap activeTests

\* what a schedule's selector names: nothing, or test 1
SelectorChoices == {{}, {1}}

\* the loop of checkSchedules over the enabled schedules (read once, before
\* the loop) from the i-th schedule on; sel[s] is what the selector of s names
RECURSIVE checkSchedulesFrom(_, _, _, _, _)
checkSchedulesFrom(st, enabled, i, sel, now) ==
  IF i > Len(ScheduleOrder) THEN st
  ELSE IF ScheduleOrder[i] \in enabled /\ isScheduleDue(st.schedules, ScheduleOrder[i], now)
  THEN checkSchedulesFrom(triggerSchedule(st, ScheduleOrder[i],
                                          getTestsForSelector(sel[ScheduleOrder[i]]), now),
                          enabled, i + 1, sel, now)
  ELSE checkSchedulesFrom(st, enabled, i + 1, sel, now)

getEnabledSchedules(sch) == {s \in DOMAIN sch : sch[s].enabled}

\* DELETE FROM schedules with runs.schedule_id declared ON DELETE CASCADE
deleteScheduleCascade(st, id) ==
  LET gone == {r \in DOMAIN st.runs : st.runMeta[r].scheduleId = id}
  IN [st EXCEPT !.schedules = [s \in DOMAIN st.schedules \ {id} |-> st.schedules[s]],
                !.runs = [r \in DOMAIN st.runs \ gone |-> st.runs[r]],
                !.runTests = [r \in DOMAIN st.runTests \ gone |-> st.runTests[r]],
                !.runMeta = [r \in DOMAIN st.runMeta \ gone |-> st.runMeta[r]]]

\* deleteSchedule: DELETE FROM schedules WHERE id = ?; runs.schedule_id is
\* declared ON DELETE SET NULL and foreign keys are enforced
deleteSchedule(st, id) ==
  [st EXCEPT !.schedules = [s \in DOMAIN st.schedules \ {id} |-> st.schedules[s]],
             !.runMeta = [r \in DOMAIN st.runMeta |->
                            IF st.runMeta[r].scheduleId = id
                            THEN [st.runMeta[r] EXCEPT !.scheduleId = NoScheduleId]
                            ELSE st.runMeta[r]]]

checkSchedules(sel) ==
  LET st == checkSchedulesFrom(schedulerStore, getEnabledSchedules(schedules), 1, sel, clock)
  IN /\ st.nextRunId <= MaxRuns + 1
     /\ rowCount(st.runTests) <= MaxRows
     /\ runs' = st.runs
     /\ runTests' = st.runTests
     /\ runMeta' = st.runMeta
     /\ schedules' = st.schedules
     /\ nextRunId' = st.nextRunId

----------------------------------------------------------------------------
(* Effective configuration: buildEffectiveConfig in src/unnamed/part_011   *)
(*                                                                         *)
(* A configuration object is a function from its keys to values.  A source *)
(* object is given by the set of keys it defines; the value it holds for a *)
(* key names the source, so the result shows which source each key's value *)
(* came from.                                                              *)

CfgKeys == {"envCode", "baseUrl"}

\* a source object that may be undefined
CfgSources ==
  {[present |-> FALSE, keys |-> {}]} \cup {[present |-> TRUE, keys |-> K] : K \in SUBSET CfgKeys}

AbsentSource == [present |-> FALSE, keys |-> {}]

\* the value a source holds for each of its keys
cfgValue(from, env) == [from |-> from, env |-> env]

\* the object literal or JSON object of a source
sourceObject(src, from, env) == [k \in src.keys |-> cfgValue(from, env)]

\* Object.assign(config, obj), also the spread of obj into a literal
objectAssign(config, obj) ==
  [k \in DOMAIN config \cup DOMAIN obj |-> IF k \in DOMAIN obj THEN obj[k] ELSE config[k]]

\* buildEffectiveConfig with overrides.shared applied after overrides.environments[env]
buildEffectiveConfigSharedLast(testDef, run) ==
  LET env == run.environment
      c0 == objectAssign([k \in {"envCode"} |-> cfgValue("envCode", env)],
                         sourceObject(testDef.constants.shared, "constants.shared", env))
      c1 == IF testDef.constants.environments[env].present
            THEN objectAssign(c0, sourceObject(testDef.constants.environments[env],
                                               "constants.environments", env))
            ELSE c0
      c2 == IF testDef.overrides.present /\ testDef.overrides.environments[env].present
            THEN objectAssign(c1, sourceObject(testDef.overrides.environments[env],
                                               "overrides.environments", env))
            ELSE c1
      c3 == IF testDef.overrides.present /\ testDef.overrides.shared.present
            THEN objectAssign(c2, sourceObject(testDef.overrides.shared, "overrides.shared", env))
            ELSE c2
  IN IF run.runOverrides.present
     THEN objectAssign(c3, sourceObject(run.runOverrides, "runOverrides", env))
     ELSE c3

buildEffectiveConfig(testDef, run) ==
  LET env == run.environment
      \* { envCode: env, ...(testDef.constants.shared || {}) }
      c0 == objectAssign([k \in {"envCode"} |-> cfgValue("envCode", env)],
                         sourceObject(testDef.constants.shared, "constants.shared", env))
      c1 == IF testDef.constants.environments[env].present
            THEN objectAssign(c0, sourceObject(testDef.constants.environments[env],
                                               "constants.environments", env))
            ELSE c0
      c2 == IF testDef.overrides.present /\ testDef.overrides.shared.present
            THEN objectAssign(c1, sourceObject(testDef.overrides.shared, "overrides.shared", env))
            ELSE c1
      c3 == IF testDef.overrides.present /\ testDef.overrides.environments[env].present
            THEN objectAssign(c2, sourceObject(testDef.overrides.environments[env],
                                               "overrides.environments", env))
            ELSE c2
  IN IF run.runOverrides.present
     THEN objectAssign(c3, sourceObject(run.runOverrides, "runOverrides", env))
     ELSE c3

\* test definitions as buildEffectiveConfig reads them
CfgTestDefs ==
  [constants : [shared : CfgSources, environments : [Environments -> CfgSources]],
   overrides : [present : BOOLEAN, shared : CfgSources,
                environments : [Environments -> CfgSources]]]

CfgRuns == [environment : Environments, runOverrides : CfgSources]

\* buildEffectiveConfig was not called
NoConfigCall ==
  /\ cfgIn = [testDef |-> [constants |-> [shared |-> AbsentSource,
                                          environments |-> [e \in Environments |-> AbsentSource]],
                           overrides |-> [present |-> FALSE, shared |-> AbsentSource,
                                          environments |-> [e \in Environments |-> AbsentSource]]],
              run |-> [environment |-> "dev", runOverrides |-> AbsentSource]]
  /\ cfgOut = [called |-> FALSE, config |-> <<>>]

----------------------------------------------------------------------------
(* Live log: console.log written by executeTest / runPlaywrightTest in     *)
(* src/unnamed/part_011, read by GET /:runId/tests/:testKey/logs in        *)
(* src/portal/backend/src/api/tests.ts                                     *)
(*                                                                         *)
(* The file is a sequence of bytes; a text is a sequence of characters,    *)
(* each one UTF-16 code unit long.  "a" takes one byte in UTF-8, "e'" two. *)

LogChars == {"a", "e'"}

ReplacementChar == "U+FFFD"

\* the UTF-8 bytes appendFileSync / writeFileSync write for a text
RECURSIVE utf8Encode(_)
utf8Encode(text) ==
  IF text = <<>> THEN <<>>
  ELSE (IF Head(text) = "a" THEN <<"61">> ELSE <<"C3", "A9">>) \o utf8Encode(Tail(text))

\* readFileSync(logPath, 'utf-8'): an incomplete sequence decodes to U+FFFD
RECURSIVE utf8Decode(_)
utf8Decode(bytes) ==
  IF bytes = <<>> THEN <<>>
  ELSE IF Head(bytes) = "61" THEN <<"a">> \o utf8Decode(Tail(bytes))
  ELSE IF Head(bytes) = "C3" /\ Len(bytes) >= 2 /\ bytes[2] = "A9"
       THEN <<"e'">> \o utf8Decode(Tail(Tail(bytes)))
  ELSE <<ReplacementChar>> \o utf8Decode(Tail(bytes))

\* fullContent.slice(offset)
slice(text, offset) == SubSeq(text, offset + 1, Len(text))

NoFile == [exists |-> FALSE, bytes |-> <<>>]

\* writeFileSync(logPath, text): creates or truncates
writeFile(text) == [exists |-> TRUE, bytes |-> utf8Encode(text)]

\* safeAppendFileSync / appendFileSync: creates the file when it is missing
appendFile(file, text) == [exists |-> TRUE, bytes |-> file.bytes \o utf8Encode(text)]

\* the handler with the new offset counted in bytes
getLogsByteOffset(row, file, offset) ==
  IF row = "none"
  THEN [status |-> "404", content |-> <<>>, offset |-> offset, finished |-> FALSE]
  ELSE [status |-> "200",
        content |-> IF file.exists THEN slice(utf8Decode(file.bytes), offset) ELSE <<>>,
        offset |-> IF file.exists THEN Len(file.bytes) ELSE offset,
        finished |-> row \in {"passed", "failed", "skipped"}]

\* GET /:runId/tests/:testKey/logs?offset=N for a row in status row ("none":
\* no such row); a 404 carries no offset, the caller keeps its own
getLogs(row, file, offset) ==
  IF row = "none"
  THEN [status |-> "404", content |-> <<>>, offset |-> offset, finished |-> FALSE]
  ELSE [status |-> "200",
        content |-> IF file.exists THEN slice(utf8Decode(file.bytes), offset) ELSE <<>>,
        offset |-> IF file.exists THEN Len(utf8Decode(file.bytes)) ELSE offset,
        finished |-> row \in {"passed", "failed", "skipped"}]

\* nobody polls and no test writes a log
NoLogPolling ==
  /\ logRow = "none"
  /\ logFile = NoFile
  /\ logPoll = [offset |-> 0, received |-> <<>>, last |-> "none", finished |-> FALSE]
  /\ logChild = "none"

----------------------------------------------------------------------------
(* Catalog: the test_definitions table written by discovery                *)
(* (src/portal/backend/src/core/discovery/index.ts) through upsertTest and *)
(* deactivateTestsNotIn, and by the override endpoint through              *)
(* updateTestOverrides (src/portal/backend/src/db/models/tests.ts)         *)

CatalogKeys == {"a", "b"}

Folders == {"f1", "f2"}

\* contents a test folder can have
Revisions == {"r1", "r2"}

\* overrides NULL
NoOverrides == <<"null">>

\* bodies of PUT /:testKey/overrides: two objects and a body that is none
OverrideBodies == {"o1", "o2", "notAnObject"}

\* JSON.stringify of a parsed JSON value, and JSON.parse of that text
JSONstringify(value) == <<"json", value>>

JSONparse(text) == text[2]

\* parseTestFolder: what a test folder with this testKey yields; upsertOk
\* tells whether the statements of upsertTest run or throw for it
DiscoveredTests ==
  [testKey : CatalogKeys, folderPath : Folders, rev : Revisions, upsertOk : BOOLEAN]

specPathOf(d) == [folder |-> d.folderPath, file |-> d.rev]

metaOf(d) == [testKey |-> d.testKey, friendlyName |-> d.rev]

constantsOf(d) == [shared |-> d.rev]

\* the row with that test_key, 0 when there is none (test_key is UNIQUE)
getTestIdByKey(cat, testKey) ==
  LET found == {id \in DOMAIN cat : cat[id].testKey = testKey}
  IN IF found = {} THEN 0 ELSE CHOOSE id \in found : \A o \in found : id <= o

\* the UPDATE of upsertTest resetting the overrides column
updateDefinitionClearsOverrides(row, d) ==
  [row EXCEPT !.folderPath = d.folderPath,
              !.specPath = specPathOf(d),
              !.meta = JSONstringify(metaOf(d)),
              !.constants = JSONstringify(constantsOf(d)),
              !.overrides = NoOverrides,
              !.active = TRUE]

\* the UPDATE of upsertTest
updateDefinition(row, d) ==
  [row EXCEPT !.folderPath = d.folderPath,
              !.specPath = specPathOf(d),
              !.meta = JSONstringify(metaOf(d)),
              !.constants = JSONstringify(constantsOf(d)),
              !.active = TRUE]

\* the INSERT of upsertTest
insertDefinition(d) ==
  [testKey |-> d.testKey, folderPath |-> d.folderPath, specPath |-> specPathOf(d),
   meta |-> JSONstringify(metaOf(d)), constants |-> JSONstringify(constantsOf(d)),
   overrides |-> NoOverrides, active |-> TRUE]

\* upsertTest that inserts without looking for the row
upsertTestAlwaysInsert(st, d) ==
  [catalog |-> (st.nextTestId :> insertDefinition(d)) @@ st.catalog,
   nextTestId |-> st.nextTestId + 1]

\* upsertTest on the store [catalog, nextTestId]
upsertTest(st, d) ==
  LET existing == getTestIdByKey(st.catalog, d.testKey)
  IN IF existing # 0
     THEN [st EXCEPT !.catalog[existing] = updateDefinition(st.catalog[existing], d)]
     ELSE [catalog |-> (st.nextTestId :> insertDefinition(d)) @@ st.catalog,
           nextTestId |-> st.nextTestId + 1]

\* deactivateTestsNotIn that leaves the table alone
deactivateTestsNotInNoop(cat, activeTestKeys) == cat

\* deactivateTestsNotIn: with no key every row is deactivated
deactivateTestsNotIn(cat, activeTestKeys) ==
  [id \in DOMAIN cat |->
     IF cat[id].testKey \in activeTestKeys THEN cat[id] ELSE [cat[id] EXCEPT !.active = FALSE]]

\* updateTestOverrides: UPDATE ... WHERE test_key = ?
updateTestOverrides(cat, testKey, overrides) ==
  [id \in DOMAIN cat |->
     IF cat[id].testKey = testKey
     THEN [cat[id] EXCEPT !.overrides = JSONstringify(overrides)]
     ELSE cat[id]]

\* runDiscoveryAndSync, the for-loop from position i: the store and the
\* keys pushed so far; a test whose upsert throws is logged and not pushed
RECURSIVE upsertAll(_, _, _, _)
upsertAll(st, testKeys, discovered, i) ==
  IF i > Len(discovered) THEN [store |-> st, testKeys |-> testKeys]
  ELSE IF discovered[i].upsertOk
       THEN upsertAll(upsertTest(st, discovered[i]), testKeys \cup {discovered[i].testKey},
                      discovered, i + 1)
       ELSE upsertAll(st, testKeys, discovered, i + 1)

\* runDiscoveryAndSync without the return on an empty discovery
runDiscoveryAndSyncNoGuard(st, discovered) ==
  LET r == upsertAll(st, {}, discovered, 1)
  IN [r.store EXCEPT !.catalog = deactivateTestsNotIn(r.store.catalog, r.testKeys)]

\* runDiscoveryAndSync on the store, given what discoverTests returned
runDiscoveryAndSync(st, discovered) ==
  IF Len(discovered) = 0 THEN st
  ELSE LET r == upsertAll(st, {}, discovered, 1)
       IN [r.store EXCEPT !.catalog = deactivateTestsNotIn(r.store.catalog, r.testKeys)]

\* the table before the first discovery
NoCatalog ==
  /\ catalog = <<>>
  /\ nextTestId = 1

\* no run has written artifacts
NoArtifacts == artifactDirs = {} /\ liveShots = {}

----------------------------------------------------------------------------
(* Flaky tests: getFlakyTests and getFlakyTestsCount in                    *)
(* src/portal/backend/src/db/models/runs.ts.  The rows of run_tests JOIN   *)
(* runs are given as a table of row counts per kind of row.                *)

FlakyKeys == {"a", "b"}

\* a row's test key, its status, and whether its run's finished_at lies in
\* the window of the query
RowKinds ==
  [testKey : FlakyKeys, status : {"passed", "failed", "skipped"}, inWindow : {TRUE}]
  \cup [testKey : FlakyKeys, status : {"passed", "failed"}, inWindow : {FALSE}]

\* how many rows of a kind the tables hold: test a has any number of results
\* in the window, every other kind at most one row (none outside the window
\* or skipped for test b)
countRange(kind) ==
  IF kind.testKey = "a" /\ kind.inWindow /\ kind.status # "skipped" THEN 0..MaxExecutions
  ELSE IF kind.testKey = "a" \/ (kind.inWindow /\ kind.status # "skipped") THEN 0..1
  ELSE {0}

\* a table from the numbers of passed and failed results of test a in the
\* window (p, f) and the set of the other kinds that have one row
flakyTable(p, f, others) ==
  [kind \in RowKinds |->
     IF kind = [testKey |-> "a", status |-> "passed", inWindow |-> TRUE] THEN p
     ELSE IF kind = [testKey |-> "a", status |-> "failed", inWindow |-> TRUE] THEN f
     ELSE IF kind \in others THEN 1 ELSE 0]

FlakyTables ==
  {flakyTable(p, f, others) :
     p \in 0..MaxExecutions, f \in 0..MaxExecutions,
     others \in SUBSET {kind \in RowKinds : countRange(kind) = 0..1}}

\* options.minExecutions of the request, 0 when it is absent
MinExecutionsChoices == {0, 1, 2, DefaultMinExecutions, MaxExecutions}

\* COUNT(*) and the two SUMs of test_stats for one test key: the rows WHERE
\* finished_at is in the window AND status IN ('passed', 'failed')
testStats(table, testKey) ==
  LET passed_count == table[[testKey |-> testKey, status |-> "passed", inWindow |-> TRUE]]
      failed_count == table[[testKey |-> testKey, status |-> "failed", inWindow |-> TRUE]]
  IN [total_executions |-> passed_count + failed_count,
      passed_count |-> passed_count, failed_count |-> failed_count]

\* the HAVING clause with both bounds of the rate exclusive
havingFlakyExclusive(stat, minExecutions) ==
  /\ stat.total_executions >= minExecutions
  /\ stat.passed_count > 0
  /\ stat.failed_count > 0
  /\ stat.failed_count * 100 > 10 * stat.total_executions
  /\ stat.failed_count * 100 < 90 * stat.total_executions

\* the HAVING clause; (failed_count * 100.0 / total_executions) BETWEEN 10
\* AND 90 is compared without the division, which is exact at both bounds
havingFlaky(stat, minExecutions) ==
  /\ stat.total_executions >= minExecutions
  /\ stat.passed_count > 0
  /\ stat.failed_count > 0
  /\ stat.failed_count * 100 >= 10 * stat.total_executions
  /\ stat.failed_count * 100 <= 90 * stat.total_executions

\* getFlakyTests: the test keys of the rows returned
getFlakyTests(table, minExecutionsOption) ==
  LET minExecutions == IF minExecutionsOption = 0 THEN DefaultMinExecutions
                       ELSE minExecutionsOption
  IN {k \in FlakyKeys : havingFlaky(testStats(table, k), minExecutions)}

\* getFlakyTestsCount(days): count, with minExecutions at its default
getFlakyTestsCount(table) ==
  Cardinality({k \in FlakyKeys : havingFlaky(testStats(table, k), DefaultMinExecutions)})

NoFlakyQuery ==
  /\ flakyIn = [table |-> [kind \in RowKinds |-> 0], minExecutions |-> 0]
  /\ flakyOut = [called |-> FALSE, keys |-> {}, count |-> 0]

----------------------------------------------------------------------------
(* Queue processor: src/portal/backend/src/core/startup-cleanup.ts 240-336 *)

\* processQueue without the capacity check
admittedNoLimit(rs) == getNextQueuedRun(rs)

\* the run this tick dispatches, 0 when it dispatches none
admitted(rs) ==
  IF countRunningRuns(rs) >= maxConcurrentRuns THEN 0 ELSE getNextQueuedRun(rs)

processQueue(fsOk) ==
  IF admitted(runs) = 0
  THEN UNCHANGED <<runs, runTests, exec>>
  ELSE executeRun(admitted(runs), fsOk)

----------------------------------------------------------------------------
\* the run lifecycle before the first start of the server
CoreInit ==
  /\ variant \in Variants
  /\ phase = "down"
  /\ runs = <<>>
  /\ runTests = <<>>
  /\ runMeta = <<>>
  /\ testDefs = TestKeys
  /\ exec = <<>>
  /\ nextRunId = 1
  /\ lastOp = [op |-> "init", run |-> 0, key |-> 0, out |-> "none"]

\* no schedule rows
NoSchedules == schedules = <<>> /\ clock = 1

\* every test definition is active
AllActive == activeTests = TestKeys

Init ==
  /\ CoreInit
  /\ NoSchedules
  /\ AllActive
  /\ NoConfigCall
  /\ NoLogPolling
  /\ NoCatalog
  /\ NoArtifacts
  /\ NoFlakyQuery

CreateRun(keys) ==
  /\ phase = "up"
  /\ nextRunId <= MaxRuns
  /\ rowCount(runTests) + Cardinality(keys) <= MaxRows
  /\ runs' = createRunRow(runs, nextRunId)
  /\ runTests' = createRunTests(runTests, nextRunId, keys)
  /\ runMeta' = createRunMeta(runMeta, nextRunId, NoScheduleId, "dev")
  /\ nextRunId' = nextRunId + 1
  /\ lastOp' = [op |-> "create", run |-> nextRunId, key |-> 0, out |-> "201"]
  /\ UNCHANGED <<variant, phase, testDefs, exec>>
  /\ UNCHANGED <<schedVars, activeTests, catVars, artifactDirs, liveShots, cfgVars, flakyVars, logVars>>

\* start(), first part: initDatabase and cleanupOrphanedRuns
StartRecover ==
  /\ phase = "down"
  /\ phase' = "recovered"
  /\ runs' = cleanupRuns(runs)
  /\ runTests' = cleanupRunTests(runs, runTests)
  /\ lastOp' = [op |-> "recover", run |-> 0, key |-> 0, out |-> "none"]
  /\ UNCHANGED <<variant, testDefs, exec, nextRunId>>
  /\ UNCHANGED <<runMeta, schedVars, activeTests, catVars, artifactDirs, liveShots, cfgVars, flakyVars, logVars>>

\* start(), second part: the workers start (the queue processes at once) and
\* the HTTP server listens
StartWorkers(fsOk) ==
  /\ phase = "recovered"
  /\ phase' = "up"
  /\ processQueue(fsOk)
  /\ lastOp' = [op |-> "start", run |-> admitted(runs), key |-> 0, out |-> "none"]
  /\ UNCHANGED <<variant, testDefs, nextRunId>>
  /\ UNCHANGED <<runMeta, schedVars, activeTests, catVars, artifactDirs, liveShots, cfgVars, flakyVars, logVars>>

\* a queue interval tick
QueueTick(fsOk) ==
  /\ phase = "up"
  /\ processQueue(fsOk)
  /\ lastOp' = [op |-> "tick", run |-> admitted(runs), key |-> 0, out |-> "none"]
  /\ UNCHANGED <<variant, phase, testDefs, nextRunId>>
  /\ UNCHANGED <<runMeta, schedVars, activeTests, catVars, artifactDirs, liveShots, cfgVars, flakyVars, logVars>>

\* in-process variant: chromium.launch settles
LaunchDone(id, ok, fsOk) ==
  /\ phase = "up"
  /\ id \in DOMAIN exec
  /\ exec[id].pc = "launching"
  /\ IF ok
     THEN LET keys == getRunTests(runTests, id)
          IN continueRun(runs, id, TestsOf(runTests, id),
                         [NoSummary EXCEPT !.totalTests = Len(keys)], keys, 1, fsOk)
     ELSE /\ runs' = catchRun(runs, id, exec[id].summary)
          /\ exec' = [i \in DOMAIN exec \ {id} |-> exec[i]]
          /\ UNCHANGED runTests
  /\ lastOp' = [op |-> "launchDone", run |-> id, key |-> 0,
                out |-> IF ok THEN "ok" ELSE "error"]
  /\ UNCHANGED <<variant, phase, testDefs, nextRunId>>
  /\ UNCHANGED <<runMeta, schedVars, activeTests, catVars, artifactDirs, liveShots, cfgVars, flakyVars, logVars>>

\* the driver of the running test ends; executeTest records the result and the
\* loop goes on to the next await or to the end of the run
TestDone(id, outcome, fsOk) ==
  /\ phase = "up"
  /\ id \in DOMAIN exec
  /\ exec[id].pc = "awaitDriver"
  /\ LET e == exec[id]
         key == e.keys[e.idx]
         status == resultStatus(outcome)
         tests == updateRunTestStatus(TestsOf(runTests, id), key, status,
                                      resultMessage(outcome))
     IN /\ continueRun(runs, id, tests, countResult(e.summary, status),
                       e.keys, e.idx + 1, fsOk)
        /\ lastOp' = [op |-> "testDone", run |-> id, key |-> key, out |-> outcome]
        /\ liveShots' = removeLiveScreenshot(liveShots, id, key)
  /\ UNCHANGED <<variant, phase, testDefs, nextRunId>>
  /\ UNCHANGED <<runMeta, schedVars, activeTests, catVars, artifactDirs, cfgVars, flakyVars, logVars>>

\* POST /api/runs/:runId/cancel
CancelRequest(id) ==
  /\ phase = "up"
  /\ IF id \notin DOMAIN runs
     THEN /\ lastOp' = [op |-> "cancel", run |-> id, key |-> 0, out |-> "404"]
          /\ UNCHANGED runs
     ELSE IF runs[id].status \notin {"queued", "running"}
     THEN /\ lastOp' = [op |-> "cancel", run |-> id, key |-> 0, out |-> "400"]
          /\ UNCHANGED runs
     ELSE /\ runs' = cancelRun(runs, id)
          /\ lastOp' = [op |-> "cancel", run |-> id, key |-> 0,
                        out |-> IF cancelRun(runs, id) # runs THEN "200" ELSE "400"]
  /\ UNCHANGED <<variant, phase, runTests, testDefs, exec, nextRunId>>
  /\ UNCHANGED <<runMeta, schedVars, activeTests, catVars, artifactDirs, liveShots, cfgVars, flakyVars, logVars>>

\* SIGINT / SIGTERM: the process exits, its executor tasks die with it
Shutdown ==
  /\ phase = "up"
  /\ phase' = "down"
  /\ exec' = <<>>
  /\ lastOp' = [op |-> "shutdown", run |-> 0, key |-> 0, out |-> "none"]
  /\ UNCHANGED <<variant, runs, runTests, testDefs, nextRunId>>
  /\ UNCHANGED <<runMeta, schedVars, activeTests, catVars, artifactDirs, liveShots, cfgVars, flakyVars, logVars>>

\* time passes
ClockTick ==
  /\ clock < MaxTime
  /\ clock' = clock + 1
  /\ lastOp' = [op |-> "clock", run |-> 0, key |-> 0, out |-> "none"]
  /\ UNCHANGED <<variant, phase, runs, runTests, testDefs, exec, nextRunId>>
  /\ UNCHANGED <<runMeta, schedules, activeTests, catVars, artifactDirs, liveShots, cfgVars, flakyVars, logVars>>

\* start(): startQueueProcessor, which processes the queue at once
StartQueue(fsOk) ==
  /\ phase = "recovered"
  /\ phase' = "scheduling"
  /\ processQueue(fsOk)
  /\ lastOp' = [op |-> "start", run |-> admitted(runs), key |-> 0, out |-> "none"]
  /\ UNCHANGED <<variant, testDefs, nextRunId>>
  /\ UNCHANGED <<runMeta, schedVars, activeTests, catVars, artifactDirs, liveShots, cfgVars, flakyVars, logVars>>

\* start(): startScheduler, which checks the schedules at once; then the
\* HTTP server listens
StartScheduler(sel) ==
  /\ phase = "scheduling"
  /\ phase' = "up"
  /\ checkSchedules(sel)
  /\ lastOp' = [op |-> "schedule", run |-> 0, key |-> 0, out |-> "none"]
  /\ UNCHANGED <<variant, testDefs, exec, clock, activeTests, catVars, artifactDirs, liveShots, cfgVars, flakyVars, logVars>>

\* a scheduler interval tick
SchedulerTick(sel) ==
  /\ phase = "up"
  /\ checkSchedules(sel)
  /\ lastOp' = [op |-> "schedule", run |-> 0, key |-> 0, out |-> "none"]
  /\ UNCHANGED <<variant, phase, testDefs, exec, clock, activeTests, catVars, artifactDirs, liveShots, cfgVars, flakyVars, logVars>>

Next ==
  \/ StartRecover
  \/ \E fsOk \in BOOLEAN : StartWorkers(fsOk)
  \/ \E n \in 0..MaxTests : CreateRun(1..n)
  \/ \E fsOk \in BOOLEAN : QueueTick(fsOk)
  \/ \E id \in RunIds, ok \in BOOLEAN, fsOk \in BOOLEAN : LaunchDone(id, ok, fsOk)
  \/ \E id \in RunIds, outcome \in DriverOutcomes, fsOk \in BOOLEAN : TestDone(id, outcome, fsOk)
  \/ \E id \in RunIds : CancelRequest(id)
  \/ Shutdown

Spec == Init /\ [][Next]_vars

\* The program built with the driver-subprocess executor (src/unnamed/part_011)
SubprocessInit == Init /\ variant = "subprocess"

SubprocessNext ==
  \/ StartRecover
  \/ \E fsOk \in BOOLEAN : StartWorkers(fsOk)
  \/ \E n \in 0..MaxTests : CreateRun(1..n)
  \/ \E fsOk \in BOOLEAN : QueueTick(fsOk)
  \/ \E id \in RunIds, outcome \in DriverOutcomes, fsOk \in BOOLEAN : TestDone(id, outcome, fsOk)
  \/ \E id \in RunIds : CancelRequest(id)
  \/ Shutdown

SubprocessSpec == SubprocessInit /\ [][SubprocessNext]_vars

\* Scheduling the code guarantees: start() runs to its end, the queue interval
\* keeps ticking, a launch settles and every driver subprocess exits.
FairSpec ==
  /\ Spec
  /\ WF_vars(StartRecover)
  /\ WF_vars(\E fsOk \in BOOLEAN : StartWorkers(fsOk))
  /\ WF_vars(\E fsOk \in BOOLEAN : QueueTick(fsOk))
  /\ WF_vars(\E id \in RunIds, ok \in BOOLEAN, fsOk \in BOOLEAN : LaunchDone(id, ok, fsOk))
  /\ WF_vars(\E id \in RunIds, outcome \in DriverOutcomes, fsOk \in BOOLEAN :
               TestDone(id, outcome, fsOk))

FairSubprocessSpec ==
  /\ SubprocessSpec
  /\ WF_vars(StartRecover)
  /\ WF_vars(\E fsOk \in BOOLEAN : StartWorkers(fsOk))
  /\ WF_vars(\E fsOk \in BOOLEAN : QueueTick(fsOk))
  /\ WF_vars(\E id \in RunIds, outcome \in DriverOutcomes, fsOk \in BOOLEAN :
               TestDone(id, outcome, fsOk))

\* a queue interval tick that dispatches a run whose artifact directory
\* cannot be created
QueueTickMkdirThrows ==
  /\ phase = "up"
  /\ admitted(runs) # 0
  /\ executeRunMkdirThrows(admitted(runs))
  /\ lastOp' = [op |-> "tick", run |-> admitted(runs), key |-> 0, out |-> "mkdirError"]
  /\ UNCHANGED <<variant, phase, testDefs, nextRunId>>
  /\ UNCHANGED <<runMeta, schedVars, activeTests, catVars, artifactDirs, liveShots, cfgVars, flakyVars, logVars>>

\* The program on a filesystem that may also refuse the run directory
FaultNext ==
  \/ Next
  \/ QueueTickMkdirThrows

FaultSpec == Init /\ [][FaultNext]_vars

\* FaultSpec under the scheduling of FairSpec
FairFaultSpec ==
  /\ FaultSpec
  /\ WF_vars(StartRecover)
  /\ WF_vars(\E fsOk \in BOOLEAN : StartWorkers(fsOk))
  /\ WF_vars(\E fsOk \in BOOLEAN : QueueTick(fsOk))
  /\ WF_vars(\E id \in RunIds, ok \in BOOLEAN, fsOk \in BOOLEAN : LaunchDone(id, ok, fsOk))
  /\ WF_vars(\E id \in RunIds, outcome \in DriverOutcomes, fsOk \in BOOLEAN :
               TestDone(id, outcome, fsOk))

\* The server with its scheduler, built with the driver-subprocess executor:
\* every schedule was created and possibly toggled off, none was triggered;
\* runs come from the schedules
SchedulerInit ==
  /\ CoreInit
  /\ variant = "subprocess"
  /\ schedules \in [ScheduleIds -> {toggleScheduleEnabled(NewSchedule, enabled) :
                                       enabled \in BOOLEAN}]
  /\ clock = 1
  /\ AllActive
  /\ NoConfigCall
  /\ NoLogPolling
  /\ NoCatalog
  /\ NoArtifacts
  /\ NoFlakyQuery

SchedulerNext ==
  \/ StartRecover
  \/ \E fsOk \in BOOLEAN : StartQueue(fsOk)
  \/ \E sel \in [ScheduleIds -> SelectorChoices] : StartScheduler(sel)
  \/ \E sel \in [ScheduleIds -> SelectorChoices] : SchedulerTick(sel)
  \/ ClockTick
  \/ \E fsOk \in BOOLEAN : QueueTick(fsOk)
  \/ \E id \in RunIds, outcome \in DriverOutcomes, fsOk \in BOOLEAN : TestDone(id, outcome, fsOk)
  \/ \E id \in RunIds : CancelRequest(id)
  \/ Shutdown

SchedulerSpec == SchedulerInit /\ [][SchedulerNext]_vars

\* DELETE /api/schedules/:id
DeleteSchedule(id) ==
  LET st == deleteSchedule(schedulerStore, id)
  IN /\ phase = "up"
     /\ IF id \notin DOMAIN schedules
        THEN /\ lastOp' = [op |-> "deleteSchedule", run |-> 0, key |-> 0, out |-> "404",
                           schedule |-> id]
             /\ UNCHANGED <<runs, runTests, runMeta, schedules>>
        ELSE /\ runs' = st.runs
             /\ runTests' = st.runTests
             /\ runMeta' = st.runMeta
             /\ schedules' = st.schedules
             /\ lastOp' = [op |-> "deleteSchedule", run |-> 0, key |-> 0, out |-> "200",
                           schedule |-> id]
     /\ UNCHANGED <<variant, phase, testDefs, exec, nextRunId, clock>>
     /\ UNCHANGED <<activeTests, catVars, artifactDirs, liveShots, cfgVars, flakyVars, logVars>>

\* The server with its scheduler and the schedule API
ScheduleApiNext ==
  \/ StartRecover
  \/ \E fsOk \in BOOLEAN : StartQueue(fsOk)
  \/ \E sel \in [ScheduleIds -> SelectorChoices] : StartScheduler(sel)
  \/ \E sel \in [ScheduleIds -> SelectorChoices] : SchedulerTick(sel)
  \/ ClockTick
  \/ QueueTick(TRUE)
  \/ \E id \in RunIds, outcome \in DriverOutcomes : TestDone(id, outcome, TRUE)
  \/ \E id \in ScheduleIds : DeleteSchedule(id)

ScheduleApiSpec == SchedulerInit /\ [][ScheduleApiNext]_vars

\* executeTest calls buildEffectiveConfig(testDef, run) (part_011 139)
BuildConfig ==
  /\ ~cfgOut.called
  /\ cfgOut' = [called |-> TRUE, config |-> buildEffectiveConfig(cfgIn.testDef, cfgIn.run)]
  /\ UNCHANGED <<coreVars, runMeta, schedVars, activeTests, catVars, artifactDirs, liveShots, cfgIn, logVars, flakyVars>>

\* buildEffectiveConfig on every test definition and run: a definition
\* without overrides has no override sources
ConfigInit ==
  /\ CoreInit
  /\ variant = "subprocess"
  /\ NoSchedules
  /\ AllActive
  /\ NoLogPolling
  /\ NoCatalog
  /\ NoArtifacts
  /\ NoFlakyQuery
  /\ cfgIn \in {in \in [testDef : CfgTestDefs, run : CfgRuns] :
                   ~in.testDef.overrides.present
                     => /\ in.testDef.overrides.shared = AbsentSource
                        /\ \A e \in Environments :
                             in.testDef.overrides.environments[e] = AbsentSource}
  /\ cfgOut = [called |-> FALSE, config |-> <<>>]

ConfigNext == BuildConfig

ConfigSpec == ConfigInit /\ [][ConfigNext]_vars

\* a line of text the executor writes itself
LogLine == <<"a">>

\* the texts of the driver's output chunks (data.toString())
LogChunks == {<<c>> : c \in LogChars}

\* createRun inserts the RunTest row of the polled test
LogRunCreated ==
  /\ logRow = "none"
  /\ logRow' = "pending"
  /\ lastOp' = [op |-> "logCreate", run |-> 0, key |-> 0, out |-> "none"]
  /\ UNCHANGED <<variant, phase, runs, runTests, testDefs, exec, nextRunId>>
  /\ UNCHANGED <<runMeta, schedVars, activeTests, catVars, artifactDirs, liveShots, cfgVars, flakyVars, logFile, logPoll, logChild>>

\* console.log when the driver has been spawned: two lines of executeTest,
\* the spec line and the command line
startedLog ==
  appendFile(appendFile(appendFile(writeFile(LogLine), LogLine), LogLine), LogLine)

\* executeTest up to the await of the driver: the row is set running, the
\* log is created with two lines, the spec line is appended, and
\* runPlaywrightTest appends the command line and spawns the driver; when
\* writing the log fails (fsOk = FALSE) the catch block fails the test
LogTestStart(fsOk) ==
  /\ logRow = "pending"
  /\ IF fsOk
     THEN /\ logRow' = "running"
          /\ logFile' = startedLog
          /\ logChild' = "spawned"
     ELSE /\ logRow' = "failed"
          /\ logFile' = logFile
          /\ logChild' = logChild
  /\ lastOp' = [op |-> "logStart", run |-> 0, key |-> 0,
                 out |-> IF fsOk THEN "none" ELSE "error"]
  /\ UNCHANGED <<variant, phase, runs, runTests, testDefs, exec, nextRunId>>
  /\ UNCHANGED <<runMeta, schedVars, activeTests, catVars, artifactDirs, liveShots, cfgVars, flakyVars, logPoll>>

\* child.stdout / child.stderr 'data': the chunk is appended
LogAppend(text) ==
  /\ logRow = "running"
  /\ logChild = "spawned"
  /\ Len(utf8Decode(logFile.bytes)) + Len(text) <= MaxLogLen
  /\ logFile' = appendFile(logFile, text)
  /\ lastOp' = [op |-> "logAppend", run |-> 0, key |-> 0, out |-> "none"]
  /\ UNCHANGED <<variant, phase, runs, runTests, testDefs, exec, nextRunId>>
  /\ UNCHANGED <<runMeta, schedVars, activeTests, catVars, artifactDirs, liveShots, cfgVars, flakyVars, logRow, logPoll, logChild>>

\* child 'close': the exit line is appended, then executeTest appends the
\* verdict line and sets the row's status
LogTestEnd(outcome) ==
  /\ logRow = "running"
  /\ logChild = "spawned"
  /\ logFile' = appendFile(appendFile(logFile, LogLine), LogLine)
  /\ logRow' = outcome
  /\ logChild' = "closed"
  /\ lastOp' = [op |-> "logEnd", run |-> 0, key |-> 0, out |-> outcome]
  /\ UNCHANGED <<variant, phase, runs, runTests, testDefs, exec, nextRunId>>
  /\ UNCHANGED <<runMeta, schedVars, activeTests, catVars, artifactDirs, liveShots, cfgVars, flakyVars, logPoll>>

\* child 'error' (the driver could not be spawned, so it wrote nothing): the
\* error line is appended and the promise resolved; executeTest then appends
\* the verdict line and fails the row.  'close' is emitted after 'error':
\* either in the same tick, before executeTest resumes (closeNow), or later
LogSpawnError(closeNow) ==
  /\ logRow = "running"
  /\ logChild = "spawned"
  /\ logFile = startedLog
  /\ logFile' = IF closeNow
                THEN appendFile(appendFile(appendFile(logFile, LogLine), LogLine), LogLine)
                ELSE appendFile(appendFile(logFile, LogLine), LogLine)
  /\ logRow' = "failed"
  /\ logChild' = IF closeNow THEN "closed" ELSE "errored"
  /\ lastOp' = [op |-> "logError", run |-> 0, key |-> 0, out |-> "failed"]
  /\ UNCHANGED <<variant, phase, runs, runTests, testDefs, exec, nextRunId>>
  /\ UNCHANGED <<runMeta, schedVars, activeTests, catVars, artifactDirs, liveShots, cfgVars, flakyVars, logPoll>>

\* child 'close' after 'error': the exit line is appended; the promise is
\* already resolved
LogCloseAfterError ==
  /\ logChild = "errored"
  /\ logFile' = appendFile(logFile, LogLine)
  /\ logChild' = "closed"
  /\ lastOp' = [op |-> "logClose", run |-> 0, key |-> 0, out |-> "none"]
  /\ UNCHANGED <<variant, phase, runs, runTests, testDefs, exec, nextRunId>>
  /\ UNCHANGED <<runMeta, schedVars, activeTests, catVars, artifactDirs, liveShots, cfgVars, flakyVars, logRow, logPoll>>

\* the client polls with the offset it holds and, on a 200, appends the
\* content to what it received and keeps the returned offset
LogPoll ==
  LET r == getLogs(logRow, logFile, logPoll.offset)
  IN /\ logPoll' = IF r.status = "200"
                   THEN [offset |-> r.offset, received |-> logPoll.received \o r.content,
                         last |-> "200", finished |-> r.finished]
                   ELSE [logPoll EXCEPT !.last = "404"]
     /\ lastOp' = [op |-> "poll", run |-> 0, key |-> 0, out |-> r.status]
     /\ UNCHANGED <<variant, phase, runs, runTests, testDefs, exec, nextRunId>>
     /\ UNCHANGED <<runMeta, schedVars, activeTests, catVars, artifactDirs, liveShots, cfgVars, flakyVars, logRow, logFile, logChild>>

\* one test's log and one client that polls it from offset 0
LogInit ==
  /\ CoreInit
  /\ variant = "subprocess"
  /\ NoSchedules
  /\ AllActive
  /\ NoConfigCall
  /\ NoLogPolling
  /\ NoCatalog
  /\ NoArtifacts
  /\ NoFlakyQuery

LogNext ==
  \/ LogRunCreated
  \/ \E fsOk \in BOOLEAN : LogTestStart(fsOk)
  \/ \E text \in LogChunks : LogAppend(text)
  \/ \E outcome \in {"passed", "failed"} : LogTestEnd(outcome)
  \/ \E closeNow \in BOOLEAN : LogSpawnError(closeNow)
  \/ LogCloseAfterError
  \/ LogPoll

LogSpec == LogInit /\ [][LogNext]_vars

----------------------------------------------------------------------------
(* POST /api/runs: src/portal/backend/src/api/tests.ts 172-233, with the   *)
(* helpers of src/portal/backend/src/config/index.ts                       *)

\* config/users.json
userAccess ==
  <<[email |-> "Ann@x", environments |-> {"dev"}],
    [email |-> "carl@x", environments |-> {"dev", "prod"}]>>

\* String.prototype.toLowerCase on the addresses in use
toLowerCase(email) ==
  CASE email = "Ann@x" -> "ann@x"
    [] email = "ANN@X" -> "ann@x"
    [] OTHER -> email

\* hasEnvironmentAccess comparing the addresses as they are written
hasEnvironmentAccessCaseSensitive(email, envCode) ==
  LET found == {i \in DOMAIN userAccess : userAccess[i].email = email}
  IN IF found = {} THEN FALSE
     ELSE LET user == userAccess[CHOOSE i \in found : \A j \in found : i <= j]
          IN envCode \in user.environments

\* userAccess.find(...) takes the first entry with that address
hasEnvironmentAccess(email, envCode) ==
  LET found == {i \in DOMAIN userAccess :
                  toLowerCase(userAccess[i].email) = toLowerCase(email)}
  IN IF found = {} THEN FALSE
     ELSE LET user == userAccess[CHOOSE i \in found : \A j \in found : i <= j]
          IN envCode \in user.environments

isValidEnvironment(envCode) == envCode \in Environments

\* the active definitions among the requested keys
getTestsByKeys(testKeys) == testKeys \cap activeTests

\* request bodies: key 0 has no definition, "" is a missing field, "qa" is
\* not a configured environment, bob@x is not in users.json
RequestKeySets == {{}, {0}, {1}, {0, 1}, TestKeys}

RequestEnvironments == Environments \cup {"", "qa"}

RequestEmails == {"", "ANN@X", "bob@x"}

\* the status the handler answers with
postRunStatus(testKeys, environment, userEmail) ==
  IF testKeys = {} THEN "400"
  ELSE IF environment = "" THEN "400"
  ELSE IF userEmail = "" THEN "400"
  ELSE IF ~isValidEnvironment(environment) THEN "400"
  ELSE IF ~hasEnvironmentAccess(userEmail, environment) THEN "403"
  ELSE IF getTestsByKeys(testKeys) = {} THEN "400"
  ELSE "201"

PostRun(testKeys, environment, userEmail) ==
  LET out == postRunStatus(testKeys, environment, userEmail)
      tests == getTestsByKeys(testKeys)
      req == [testKeys |-> testKeys, environment |-> environment, userEmail |-> userEmail]
  IN /\ phase = "up"
     /\ IF out = "201"
        THEN /\ nextRunId <= MaxRuns
             /\ rowCount(runTests) + Cardinality(tests) <= MaxRows
             /\ runs' = createRunRow(runs, nextRunId)
             /\ runTests' = createRunTests(runTests, nextRunId, tests)
             /\ runMeta' = createRunMeta(runMeta, nextRunId, NoScheduleId, environment)
             /\ nextRunId' = nextRunId + 1
        ELSE UNCHANGED <<runs, runTests, runMeta, nextRunId>>
     /\ lastOp' = [op |-> "post", run |-> IF out = "201" THEN nextRunId ELSE 0,
                    key |-> 0, out |-> out, req |-> req]
     /\ UNCHANGED <<variant, phase, testDefs, exec>>
     /\ UNCHANGED <<schedVars, activeTests, catVars, artifactDirs, liveShots, cfgVars, flakyVars, logVars>>

\* the server with its run API: some of the definitions are active
ApiInit ==
  /\ CoreInit
  /\ variant = "subprocess"
  /\ NoSchedules
  /\ activeTests \in SUBSET TestKeys
  /\ NoConfigCall
  /\ NoLogPolling
  /\ NoCatalog
  /\ NoArtifacts
  /\ NoFlakyQuery

ApiNext ==
  \/ StartRecover
  \/ \E fsOk \in BOOLEAN : StartWorkers(fsOk)
  \/ \E testKeys \in RequestKeySets, environment \in RequestEnvironments,
        userEmail \in RequestEmails : PostRun(testKeys, environment, userEmail)
  \/ \E fsOk \in BOOLEAN : QueueTick(fsOk)
  \/ \E id \in RunIds, outcome \in DriverOutcomes, fsOk \in BOOLEAN : TestDone(id, outcome, fsOk)

ApiSpec == ApiInit /\ [][ApiNext]_vars

----------------------------------------------------------------------------
(* Discovery at start and the override endpoint *)

\* what discoverTests can return: at most one test per folder, in the order
\* of the scan; two folders may name the same testKey
DiscoveredLists ==
  {d \in UNION {[1..n -> DiscoveredTests] : n \in 0..Cardinality(Folders)} :
     \A i, j \in DOMAIN d : i # j => d[i].folderPath # d[j].folderPath}

\* start(): runDiscoveryAndSync (a missing test root discovers nothing)
RunDiscovery(discovered) ==
  LET st == runDiscoveryAndSync([catalog |-> catalog, nextTestId |-> nextTestId], discovered)
  IN /\ catalog' = st.catalog
     /\ nextTestId' = st.nextTestId
     /\ lastOp' = [op |-> "discovery", run |-> 0, key |-> 0, out |-> "none",
                    discovered |-> discovered]
     /\ UNCHANGED <<variant, phase, runs, runTests, testDefs, exec, nextRunId>>
     /\ UNCHANGED <<runMeta, schedVars, activeTests, artifactDirs, liveShots, cfgVars, flakyVars, logVars>>

\* PUT /api/tests/:testKey/overrides
PutOverrides(testKey, body) ==
  /\ IF body = "notAnObject"
     THEN /\ UNCHANGED catVars
          /\ lastOp' = [op |-> "overrides", run |-> 0, key |-> testKey, out |-> "400"]
     ELSE /\ catalog' = updateTestOverrides(catalog, testKey, body)
          /\ nextTestId' = nextTestId
          /\ lastOp' = [op |-> "overrides", run |-> 0, key |-> testKey,
                         out |-> IF getTestIdByKey(catalog, testKey) = 0 THEN "404" ELSE "200"]
  /\ UNCHANGED <<variant, phase, runs, runTests, testDefs, exec, nextRunId>>
  /\ UNCHANGED <<runMeta, schedVars, activeTests, artifactDirs, liveShots, cfgVars, flakyVars, logVars>>

DiscoveryInit ==
  /\ CoreInit
  /\ variant = "subprocess"
  /\ NoSchedules
  /\ AllActive
  /\ NoConfigCall
  /\ NoLogPolling
  /\ NoCatalog
  /\ NoArtifacts
  /\ NoFlakyQuery

DiscoveryNext ==
  \/ \E discovered \in DiscoveredLists : RunDiscovery(discovered)
  \/ \E testKey \in CatalogKeys, body \in OverrideBodies : PutOverrides(testKey, body)

DiscoverySpec == DiscoveryInit /\ [][DiscoveryNext]_vars

----------------------------------------------------------------------------
(* Retention: runCleanup (src/portal/backend/src/db/migrations.ts 186-344) *)
(* with getOldRunIds / deleteOldRuns (db/models/runs.ts 357-382).  Time is  *)
(* counted in days; created_at is the clock at creation.                   *)

\* createRun stamping created_at with the clock
createRunRowAt(rs, id, now) == (id :> [NewRun(id) EXCEPT !.createdAt = now]) @@ rs

\* a selection without the cutoff
getOldRunIdsAnyAge(rs, now) == DOMAIN rs

\* getOldRunIds: SELECT id FROM runs WHERE created_at < cutoff
getOldRunIds(rs, now) == {id \in DOMAIN rs : rs[id].createdAt < now - retentionDays}

\* DELETE FROM runs WHERE created_at < cutoff, on a table keyed by run id;
\* run_tests rows go with their run (ON DELETE CASCADE)
deleteOldRuns(table, rs, now) ==
  [id \in DOMAIN table \ getOldRunIds(rs, now) |-> table[id]]

\* the first loop of runCleanup: rmSync of each old run's directory, the
\* error of a failing one being logged
deleteArtifacts(dirs, oldRunIds, rmFails) == dirs \ (oldRunIds \ rmFails)


\* cleanupOrphanedArtifacts: removes the directories without a run row;
\* when require is not defined in the module the first lookup throws and
\* the error is logged
cleanupOrphanedArtifacts(dirs, rs, rmFails, requireOk) ==
  IF requireOk THEN dirs \ {id \in dirs : id \notin DOMAIN rs /\ id \notin rmFails}
  ELSE dirs

\* runCleanup on [runs, runTests, runMeta, dirs]: now1 is the time read by
\* getOldRunIds and now2 the time read by deleteOldRuns
runCleanup(st, now1, now2, rmFails, requireOk) ==
  LET oldRunIds == getOldRunIds(st.runs, now1)
      dirs1 == deleteArtifacts(st.dirs, oldRunIds, rmFails)
      rs == deleteOldRuns(st.runs, st.runs, now2)
  IN IF oldRunIds = {} THEN st
     ELSE [runs |-> rs,
           runTests |-> deleteOldRuns(st.runTests, st.runs, now2),
           runMeta |-> deleteOldRuns(st.runMeta, st.runs, now2),
           dirs |-> cleanupOrphanedArtifacts(dirs1, rs, rmFails, requireOk)]

\* POST /api/runs at the current time
RetentionCreateRun(keys) ==
  /\ phase = "up"
  /\ nextRunId <= MaxRuns
  /\ rowCount(runTests) + Cardinality(keys) <= MaxRows
  /\ runs' = createRunRowAt(runs, nextRunId, clock)
  /\ runTests' = createRunTests(runTests, nextRunId, keys)
  /\ runMeta' = createRunMeta(runMeta, nextRunId, NoScheduleId, "dev")
  /\ nextRunId' = nextRunId + 1
  /\ lastOp' = [op |-> "create", run |-> nextRunId, key |-> 0, out |-> "201"]
  /\ UNCHANGED <<variant, phase, testDefs, exec>>
  /\ UNCHANGED <<schedVars, activeTests, catVars, artifactDirs, liveShots, cfgVars, flakyVars, logVars>>

\* a queue tick that dispatches a run: executeRun creates the run's
\* artifact directory before it starts the first test
RetentionQueueTick ==
  /\ phase = "up"
  /\ admitted(runs) # 0
  /\ processQueue(TRUE)
  /\ artifactDirs' = artifactDirs \cup {admitted(runs)}
  /\ UNCHANGED liveShots
  /\ lastOp' = [op |-> "tick", run |-> admitted(runs), key |-> 0, out |-> "none"]
  /\ UNCHANGED <<variant, phase, testDefs, nextRunId>>
  /\ UNCHANGED <<runMeta, schedVars, activeTests, catVars, cfgVars, flakyVars, logVars>>

\* the cleanup worker's timer fires; late: the day changes between the two
\* reads of the clock
RunCleanup(late, rmFails, requireOk) ==
  LET now2 == IF late THEN clock + 1 ELSE clock
      st == runCleanup([runs |-> runs, runTests |-> runTests, runMeta |-> runMeta,
                        dirs |-> artifactDirs], clock, now2, rmFails, requireOk)
  IN /\ phase = "up"
     /\ now2 <= MaxTime
     /\ clock' = now2
     /\ runs' = st.runs
     /\ runTests' = st.runTests
     /\ runMeta' = st.runMeta
     /\ artifactDirs' = st.dirs
     /\ liveShots' = {shot \in liveShots : shot[1] \in st.dirs \/ shot[1] \notin artifactDirs}
     /\ lastOp' = [op |-> "cleanup", run |-> 0, key |-> 0, out |-> "none",
                    rmFails |-> rmFails, start |-> clock]
     /\ UNCHANGED <<variant, phase, testDefs, exec, nextRunId>>
     /\ UNCHANGED <<schedules, activeTests, catVars, cfgVars, flakyVars, logVars>>

\* the server at day 0 with no run
RetentionInit ==
  /\ CoreInit
  /\ variant = "subprocess"
  /\ schedules = <<>>
  /\ clock = 0
  /\ AllActive
  /\ NoConfigCall
  /\ NoLogPolling
  /\ NoCatalog
  /\ NoArtifacts
  /\ NoFlakyQuery

RetentionNext ==
  \/ StartRecover
  \/ \E fsOk \in BOOLEAN : StartWorkers(fsOk)
  \/ \E keys \in SUBSET TestKeys : RetentionCreateRun(keys)
  \/ RetentionQueueTick
  \/ ClockTick
  \/ \E late \in BOOLEAN, rmFails \in SUBSET RunIds, requireOk \in BOOLEAN :
        RunCleanup(late, rmFails, requireOk)

RetentionSpec == RetentionInit /\ [][RetentionNext]_vars

\* The retention worker next to runs that are created and dispatched: the
\* removals of a sweep fail for every directory or for none
SweepNext ==
  \/ StartRecover
  \/ StartWorkers(TRUE)
  \/ \E n \in 0..MaxTests : RetentionCreateRun(1..n)
  \/ RetentionQueueTick
  \/ ClockTick
  \/ \E late \in BOOLEAN, rmFails \in {{}, RunIds}, requireOk \in BOOLEAN :
        RunCleanup(late, rmFails, requireOk)

SweepSpec == RetentionInit /\ [][SweepNext]_vars

----------------------------------------------------------------------------
(* Definition loss: the executor's lookup getTestByKey (part_011 115-124)  *)
(* fails only for a definition row that was deleted.  run_tests.test_id    *)
(* references test_definitions(id) ON DELETE CASCADE (migrations.ts 57-70) *)
(* and the server's connection enforces foreign keys (part_010 24).        *)

\* the run_tests rows left by deleting the definitions not in defs: on a
\* connection that enforces foreign keys the rows of a deleted definition go
\* with it, on one that does not they stay
cascadeRunTests(rts, defs, enforced) ==
  IF enforced
  THEN [id \in DOMAIN rts |-> [k \in DOMAIN rts[id] \cap defs |-> rts[id][k]]]
  ELSE rts

\* a discovery pass no longer finds test k: deactivateTestsNotIn
DefinitionDeactivated(k) ==
  /\ phase = "up"
  /\ k \in activeTests
  /\ activeTests' = activeTests \ {k}
  /\ lastOp' = [op |-> "deactivate", run |-> 0, key |-> k, out |-> "none"]
  /\ UNCHANGED <<variant, phase, runs, runTests, testDefs, exec, nextRunId, runMeta>>
  /\ UNCHANGED <<schedVars, catVars, artifactDirs, liveShots, cfgVars, flakyVars, logVars>>

\* DELETE FROM test_definitions WHERE active = 0 (deleteInactiveTests), run
\* on the server's connection (enforced) or on another one
DeleteInactiveTests(enforced) ==
  /\ phase = "up"
  /\ testDefs \ activeTests # {}
  /\ testDefs' = testDefs \cap activeTests
  /\ runTests' = cascadeRunTests(runTests, testDefs \cap activeTests, enforced)
  /\ lastOp' = [op |-> "deleteInactive", run |-> 0, key |-> 0, out |-> "none"]
  /\ UNCHANGED <<variant, phase, runs, exec, nextRunId, runMeta>>
  /\ UNCHANGED <<schedVars, activeTests, catVars, artifactDirs, liveShots, cfgVars, flakyVars, logVars>>

\* POST /api/runs for the tests 1..n, which getTestsByKeys resolves to the
\* definitions that exist and are active
DefinitionCreateRun(keys) ==
  /\ keys \cap testDefs \cap activeTests # {}
  /\ CreateRun(keys \cap testDefs \cap activeTests)

DefinitionNext ==
  \/ StartRecover
  \/ StartWorkers(TRUE)
  \/ \E n \in 1..MaxTests : DefinitionCreateRun(1..n)
  \/ \E fsOk \in BOOLEAN : QueueTick(fsOk)
  \/ \E id \in RunIds, outcome \in DriverOutcomes, fsOk \in BOOLEAN : TestDone(id, outcome, fsOk)
  \/ \E k \in TestKeys : DefinitionDeactivated(k)
  \/ \E enforced \in BOOLEAN : DeleteInactiveTests(enforced)

DefinitionSpec == SubprocessInit /\ [][DefinitionNext]_vars

----------------------------------------------------------------------------
(* Live screenshot: live.jpg in <artifactRoot>/<runId>/<testKey>/          *)

\* while a test's driver runs, a live.jpg is written for it: by the
\* screenshot interval of the in-process executor, by the driver itself in
\* the subprocess variant
LiveScreenshot(id) ==
  /\ phase = "up"
  /\ id \in DOMAIN exec
  /\ exec[id].pc = "awaitDriver"
  /\ <<id, exec[id].keys[exec[id].idx]>> \notin liveShots
  /\ liveShots' = liveShots \cup {<<id, exec[id].keys[exec[id].idx]>>}
  /\ lastOp' = [op |-> "liveShot", run |-> id, key |-> exec[id].keys[exec[id].idx],
                 out |-> "none"]
  /\ UNCHANGED <<variant, phase, runs, runTests, testDefs, exec, nextRunId, runMeta>>
  /\ UNCHANGED <<schedVars, activeTests, catVars, artifactDirs, cfgVars, flakyVars, logVars>>

\* the status GET /:runId/tests/:testKey/screenshot answers with
getScreenshotStatus(rts, shots, id, key) ==
  IF id \notin DOMAIN rts \/ key \notin DOMAIN TestsOf(rts, id) THEN "404"
  ELSE IF <<id, key>> \notin shots THEN "404"
  ELSE "200"

\* GET /api/runs/:runId/tests/:testKey/screenshot
GetScreenshot(id, key) ==
  /\ phase = "up"
  /\ lastOp' = [op |-> "screenshot", run |-> id, key |-> key,
                 out |-> getScreenshotStatus(runTests, liveShots, id, key)]
  /\ UNCHANGED <<variant, phase, runs, runTests, testDefs, exec, nextRunId, runMeta>>
  /\ UNCHANGED <<schedVars, activeTests, catVars, artifactDirs, liveShots, cfgVars, flakyVars, logVars>>

ScreenshotNext ==
  \/ StartRecover
  \/ StartWorkers(TRUE)
  \/ \E n \in 1..MaxTests : CreateRun(1..n)
  \/ QueueTick(TRUE)
  \/ \E id \in RunIds, ok \in BOOLEAN : LaunchDone(id, ok, TRUE)
  \/ \E id \in RunIds, outcome \in DriverOutcomes : TestDone(id, outcome, TRUE)
  \/ \E id \in RunIds : LiveScreenshot(id)
  \/ \E id \in RunIds, key \in TestKeys : GetScreenshot(id, key)

ScreenshotSpec == Init /\ [][ScreenshotNext]_vars

----------------------------------------------------------------------------
\* GET /api/dashboard/flaky-tests and the flaky count of the overview
QueryFlakyTests ==
  /\ ~flakyOut.called
  /\ flakyOut' = [called |-> TRUE,
                   keys |-> getFlakyTests(flakyIn.table, flakyIn.minExecutions),
                   count |-> getFlakyTestsCount(flakyIn.table)]
  /\ UNCHANGED <<coreVars, runMeta, schedVars, activeTests, catVars, artifactDirs, liveShots>>
  /\ UNCHANGED <<cfgVars, logVars, flakyIn>>

\* the queries on every table of results and every minExecutions option
FlakyInit ==
  /\ CoreInit
  /\ variant = "subprocess"
  /\ NoSchedules
  /\ AllActive
  /\ NoConfigCall
  /\ NoLogPolling
  /\ NoCatalog
  /\ NoArtifacts
  /\ flakyIn \in [table : FlakyTables, minExecutions : MinExecutionsChoices]
  /\ flakyOut = [called |-> FALSE, keys |-> {}, count |-> 0]

FlakyNext == QueryFlakyTests

FlakySpec == FlakyInit /\ [][FlakyNext]_vars

----------------------------------------------------------------------------
(* Properties *)

sumOf(summary) == summary.passed + summary.failed + summary.skipped

rowsWith(id, status) == {k \in DOMAIN TestsOf(runTests, id) : runTests[id][k].status = status}

\* C1: when a run is cancelled while its executor is active, the run is still
\* `cancelled` once that executor has stopped (the end-of-run status write does
\* not replace it).
C1_CancelledSurvivesExecutor ==
  [][\A id \in RunIds :
       (id \in DOMAIN exec /\ isCancelled(runs, id) /\ id \notin DOMAIN exec' /\ phase' = "up")
         => isCancelled(runs', id)]_vars

\* C2: the summary persisted when the executor stops counts the skipped rows:
\* summary.skipped equals the number of the run's RunTest rows that are
\* `skipped` (passed=1, skipped=1, failed=0 for the two-test mid-run cancel).
C2_SummaryCountsSkipped ==
  \A id \in DOMAIN runs :
    runs[id].summary.persisted
      => runs[id].summary.skipped = Cardinality(rowsWith(id, "skipped"))

\* C3: every RunTest that is pending in a cancelled run eventually becomes
\* skipped.
C3_PendingEventuallySkipped ==
  \A id \in RunIds, k \in TestKeys :
    (isCancelled(runs, id) /\ k \in rowsWith(id, "pending"))
      ~> (k \in rowsWith(id, "skipped"))

\* C4: cancelRun changes no RunTest row, and a test that is running in a
\* cancelled run leaves `running` only when its driver ends, as passed for exit
\* code 0 and as failed otherwise.
C4_RunningTestCompletes ==
  [][/\ lastOp'.op = "cancel" => runTests' = runTests
     /\ \A id \in RunIds, k \in TestKeys :
          (isCancelled(runs, id) /\ k \in rowsWith(id, "running")
             /\ runTests'[id][k].status # "running")
            => /\ lastOp' = [op |-> "testDone", run |-> id, key |-> k, out |-> lastOp'.out]
               /\ runTests'[id][k].status =
                    IF lastOp'.out = "exit0" THEN "passed" ELSE "failed"]_vars

C4_Witness ==
  /\ lastOp.op = "testDone"
  /\ lastOp.out = "exit1"
  /\ runTests[lastOp.run][lastOp.key].status = "failed"
  /\ rowsWith(lastOp.run, "skipped") # {}

\* C5: a cancel request changes a run only when it is queued or running (it
\* becomes cancelled with finishedAt stamped, nothing else changes); on a run
\* in a terminal status cancelRun changes nothing, the request answers 400 and
\* no run and no RunTest row changes.
C5_CancelOnlyActiveRuns ==
  [][/\ \A id \in RunIds :
          (id \in DOMAIN runs /\ runs[id].status \in {"queued", "running"})
            \/ cancelRun(runs, id) = runs
     /\ lastOp'.op = "cancel" =>
       LET id == lastOp'.run
       IN IF id \in DOMAIN runs /\ runs[id].status \in {"queued", "running"}
          THEN /\ lastOp'.out = "200"
               /\ runs' = [runs EXCEPT ![id].status = "cancelled",
                                       ![id].finishedAt = runs'[id].finishedAt]
               /\ runs'[id].finishedAt > runs[id].finishedAt
               /\ runTests' = runTests
          ELSE /\ lastOp'.out = IF id \in DOMAIN runs THEN "400" ELSE "404"
               /\ runs' = runs
               /\ runTests' = runTests]_vars

C5_Witness ==
  /\ lastOp.op = "cancel"
  /\ lastOp.out = "400"
  /\ isCancelled(runs, lastOp.run)

\* C6: finishedAt is set exactly when the run's status is passed, failed or
\* cancelled.
C6_FinishedIffTerminal ==
  \A id \in DOMAIN runs :
    (runs[id].finishedAt # 0) <=> (runs[id].status \in TerminalRunStatus)

C6_Witness ==
  /\ lastOp.op = "recover"
  /\ \E id \in DOMAIN runs : runs[id].status = "failed" /\ runs[id].summary.persisted = FALSE
  /\ \E id \in DOMAIN runs : runs[id].status = "cancelled"

\* C7 (as claimed): a run whose startedAt is null is queued.
C7_NullStartedIsQueued ==
  \A id \in DOMAIN runs : runs[id].startedAt = 0 => runs[id].status = "queued"

\* C7 (amended): a run whose startedAt is null is queued, cancelled (cancelled
\* while queued) or failed (failed by startup recovery while queued); no
\* running or passed run lacks startedAt.
C7_NullStartedNeverRan ==
  \A id \in DOMAIN runs :
    runs[id].startedAt = 0 => runs[id].status \in {"queued", "cancelled", "failed"}

C7_Witness ==
  \E id, other \in DOMAIN runs :
    /\ runs[id].startedAt = 0 /\ runs[id].status = "cancelled"
    /\ runs[other].startedAt = 0 /\ runs[other].status = "failed"

\* every RunTest row of the run was visited by the executor: none is still
\* pending and none was skipped in bulk by a cancellation
visitedAll(id) ==
  \A k \in DOMAIN TestsOf(runTests, id) :
    /\ runTests[id][k].status # "pending"
    /\ runTests[id][k].status = "skipped" => runTests[id][k].errorMessage = NotFoundMsg

\* C8: a persisted summary has passed + failed + skipped <= totalTests, with
\* equality exactly when the run is terminal and its executor visited every
\* test (it was not aborted by a cancellation or an uncaught error).
C8_SummaryTotals ==
  \A id \in DOMAIN runs :
    runs[id].summary.persisted
      => /\ sumOf(runs[id].summary) <= runs[id].summary.totalTests
         /\ (sumOf(runs[id].summary) = runs[id].summary.totalTests)
              <=> (runs[id].status \in TerminalRunStatus /\ visitedAll(id))

\* C9: summary.totalTests equals the number of RunTest rows of the run.
C9_TotalIsRowCount ==
  \A id \in DOMAIN runs :
    runs[id].summary.persisted
      => runs[id].summary.totalTests = Cardinality(DOMAIN TestsOf(runTests, id))

\* C10: startup recovery leaves no run queued or running: every run that was
\* queued or running is failed with finishedAt stamped, its pending and running
\* RunTests are failed with the restart message, everything terminal is
\* unchanged; and the workers take no step before recovery is complete.
C10_RecoveryCompletes ==
  /\ [](phase = "recovered" =>
          \A id \in DOMAIN runs : runs[id].status \notin {"queued", "running"})
  /\ [][(phase = "down" /\ phase' = "recovered") =>
          /\ DOMAIN runs' = DOMAIN runs
          /\ \A id \in DOMAIN runs :
               IF runs[id].status \in {"queued", "running"}
               THEN /\ runs'[id].status = "failed"
                    /\ runs'[id].finishedAt # 0
                    /\ \A k \in DOMAIN runTests[id] :
                         IF runTests[id][k].status \in {"pending", "running"}
                         THEN /\ runTests'[id][k].status = "failed"
                              /\ runTests'[id][k].errorMessage = InterruptedMsg
                         ELSE runTests'[id][k] = runTests[id][k]
               ELSE runs'[id] = runs[id] /\ runTests'[id] = runTests[id]]_vars
  /\ [][lastOp'.op \in {"tick", "start", "launchDone", "testDone"} => phase # "down"]_vars

C10_Witness ==
  /\ phase = "recovered"
  /\ \E id \in DOMAIN runs :
       /\ runs[id].status = "failed"
       /\ \E k \in DOMAIN runTests[id] : runTests[id][k].errorMessage = InterruptedMsg
  /\ \E id \in DOMAIN runs : runs[id].status = "passed"

\* the runs a step inserts for schedule s
newRunsFor(s) == {id \in DOMAIN runs' \ DOMAIN runs : runMeta'[id].scheduleId = s}

\* schedule s is enabled, due and has no queued or running run
dueAndFree(s) ==
  /\ schedules[s].enabled
  /\ isScheduleDue(schedules, s, clock)
  /\ getActiveRunsForSchedule(runs, runMeta, s) = {}

\* C11: while a run of schedule S is queued or running, a scheduler tick
\* creates no run for S and leaves S.lastTriggeredAt unchanged, due or not;
\* so at most one run per schedule is queued or running at any time.
C11_OverlapSuppressed ==
  /\ [](\A s \in ScheduleIds : Cardinality(getActiveRunsForSchedule(runs, runMeta, s)) <= 1)
  /\ [][lastOp'.op = "schedule" =>
          \A s \in ScheduleIds :
            getActiveRunsForSchedule(runs, runMeta, s) # {}
              => /\ newRunsFor(s) = {}
                 /\ schedules'[s] = schedules[s]]_vars

C11_Witness ==
  /\ lastOp.op = "schedule"
  /\ \E s \in ScheduleIds :
       /\ schedules[s].enabled
       /\ isScheduleDue(schedules, s, clock)
       /\ \E id \in getActiveRunsForSchedule(runs, runMeta, s) : runs[id].status = "running"

\* C12: a scheduler tick at which an enabled schedule S is due and has no
\* queued or running run (its previous run, if any, is terminal) creates
\* exactly one run for S, queued, with scheduleId S and S's environment, and
\* sets S.lastTriggeredAt to the time of the tick, later than it was; a tick
\* creates no run for a schedule that is disabled or not due.
C12_NextDueTickCreatesRun ==
  [][lastOp'.op = "schedule" =>
       \A s \in ScheduleIds :
         IF dueAndFree(s)
         THEN /\ Cardinality(newRunsFor(s)) = 1
              /\ \A id \in newRunsFor(s) :
                   /\ runs'[id].status = "queued"
                   /\ runMeta'[id].environment = scheduleEnv(s)
                   /\ runMeta'[id].triggerType = "schedule"
              /\ schedules'[s].lastTriggeredAt = clock
              /\ schedules'[s].lastTriggeredAt > schedules[s].lastTriggeredAt
         ELSE newRunsFor(s) = {} /\ schedules'[s] = schedules[s]]_vars

C12_Witness ==
  /\ lastOp.op = "schedule"
  /\ \E s \in ScheduleIds, r, r2 \in DOMAIN runs :
       /\ runMeta[r].scheduleId = s /\ runMeta[r2].scheduleId = s
       /\ runs[r].status = "passed"
       /\ r2 > r /\ runs[r2].status = "queued"
       /\ schedules[s].lastTriggeredAt = clock

C14_RunningWithinCapacity == countRunningRuns(runs) <= maxConcurrentRuns

C14_Witness ==
  /\ lastOp.op = "tick"
  /\ lastOp.run = 0
  /\ countRunningRuns(runs) = maxConcurrentRuns
  /\ \E id \in DOMAIN runs : runs[id].status = "queued"

\* C15: the number of executor tasks that were dispatched and have not
\* returned never exceeds maxConcurrentRuns.
C15_ExecutorsWithinCapacity == Cardinality(DOMAIN exec) <= maxConcurrentRuns

\* C16: runs enter `running` in the order of createdAt: a run enters
\* `running` only from `queued` and only when no older run is queued, a run
\* that left `queued` never returns to it, and startedAt is stamped once; so
\* of two runs that both enter `running` the older one enters first.
C16_FifoAdmission ==
  [][\A b \in DOMAIN runs :
       /\ (runs[b].startedAt = 0 /\ runs'[b].startedAt # 0)
            => /\ runs[b].status = "queued"
               /\ \A a \in DOMAIN runs :
                    runs[a].createdAt < runs[b].createdAt => runs[a].status # "queued"
       /\ runs[b].status # "queued" => runs'[b].status # "queued"
       /\ runs[b].startedAt # 0 => runs'[b].startedAt = runs[b].startedAt]_vars

C16_Witness ==
  /\ lastOp.op = "tick"
  /\ \E a, b \in DOMAIN runs :
       /\ runs[a].createdAt < runs[b].createdAt
       /\ lastOp.run = b
       /\ runs[a].startedAt # 0 /\ runs[b].startedAt # 0
       /\ runs[b].status = "running"

\* the executor of run id returns in this step, having left its loop at the
\* end (no cancellation observed, no uncaught error) with every test visited
executorCompletes(id) ==
  /\ lastOp'.op \in {"tick", "start", "launchDone", "testDone"}
  /\ lastOp'.run = id
  /\ id \notin DOMAIN exec'
  /\ ~isCancelled(runs, id)
  /\ ~(lastOp'.op = "launchDone" /\ lastOp'.out = "error")
  /\ \A k \in DOMAIN runTests'[id] : runTests'[id][k].status \in {"passed", "failed"}

MergeOrder ==
  <<"constants.shared", "constants.environments", "overrides.shared",
    "overrides.environments", "runOverrides">>

\* the source object of that name for the run's environment
sourceNamed(name) ==
  LET testDef == cfgIn.testDef
      env == cfgIn.run.environment
  IN CASE name = "constants.shared" -> testDef.constants.shared
       [] name = "constants.environments" -> testDef.constants.environments[env]
       [] name = "overrides.shared" ->
            IF testDef.overrides.present THEN testDef.overrides.shared ELSE AbsentSource
       [] name = "overrides.environments" ->
            IF testDef.overrides.present THEN testDef.overrides.environments[env]
            ELSE AbsentSource
       [] name = "runOverrides" -> cfgIn.run.runOverrides

\* the positions in MergeOrder of the sources that define key k
definedBy(k) ==
  {i \in DOMAIN MergeOrder : sourceNamed(MergeOrder[i]).present
                               /\ k \in sourceNamed(MergeOrder[i]).keys}

\* C18: the effective configuration is the top-level merge of { envCode },
\* constants.shared, constants.environments[env], overrides.shared,
\* overrides.environments[env] and run.runOverrides in this order: each key
\* holds the value of the last source that defines it, envCode is the run's
\* environment unless a source defines it, and an absent source contributes
\* no key.
C18_EffectiveConfigIsOrderedMerge ==
  cfgOut.called =>
    LET env == cfgIn.run.environment IN
    /\ DOMAIN cfgOut.config \subseteq CfgKeys
    /\ \A k \in CfgKeys :
         IF definedBy(k) # {}
         THEN LET last == CHOOSE i \in definedBy(k) : \A j \in definedBy(k) : j <= i
              IN /\ k \in DOMAIN cfgOut.config
                 /\ cfgOut.config[k] = cfgValue(MergeOrder[last], env)
         ELSE IF k = "envCode"
              THEN /\ k \in DOMAIN cfgOut.config
                   /\ cfgOut.config[k] = cfgValue("envCode", env)
              ELSE k \notin DOMAIN cfgOut.config

C18_Witness ==
  /\ cfgOut.called
  /\ definedBy("baseUrl") = {1, 3, 4}
  /\ definedBy("envCode") = {}
  /\ ~cfgIn.run.runOverrides.present
  /\ cfgOut.config = [k \in CfgKeys |->
                        IF k = "envCode" THEN cfgValue("envCode", cfgIn.run.environment)
                        ELSE cfgValue("overrides.environments", cfgIn.run.environment)]

requestPermitted(req) ==
  /\ req.environment \in Environments
  /\ \E i \in DOMAIN userAccess :
       /\ toLowerCase(userAccess[i].email) = toLowerCase(req.userEmail)
       /\ req.environment \in userAccess[i].environments

\* C20: a rejected POST /runs inserts no run and no RunTest row: an unknown
\* environment is answered 400, a well-formed request of a user who is not
\* listed (addresses compared without case) or not permitted for the
\* environment 403, and keys that resolve to no active definition 400; an
\* accepted request creates, in one step, one `queued` run for the requested
\* environment with one `pending` RunTest per resolved active definition.
C20_RejectedPostMutatesNothing ==
  [][lastOp'.op = "post" =>
       LET req == lastOp'.req
           out == lastOp'.out
           id == lastOp'.run
           wellFormed == req.testKeys # {} /\ req.environment # "" /\ req.userEmail # ""
           resolved == req.testKeys \cap activeTests
       IN /\ out \in {"201", "400", "403"}
          /\ ~(req.environment \in Environments) => out = "400"
          /\ (wellFormed /\ req.environment \in Environments /\ ~requestPermitted(req))
               => out = "403"
          /\ (wellFormed /\ requestPermitted(req) /\ resolved = {}) => out = "400"
          /\ (wellFormed /\ requestPermitted(req) /\ resolved # {}) => out = "201"
          /\ out # "201" => /\ runs' = runs
                            /\ runTests' = runTests
                            /\ runMeta' = runMeta
          /\ out = "201" =>
               /\ id \notin DOMAIN runs
               /\ DOMAIN runs' = DOMAIN runs \cup {id}
               /\ DOMAIN runTests' = DOMAIN runs'
               /\ \A o \in DOMAIN runs : runs'[o] = runs[o] /\ runTests'[o] = runTests[o]
               /\ runs'[id].status = "queued"
               /\ runMeta'[id].environment = req.environment
               /\ runMeta'[id].triggerType = "manual"
               /\ DOMAIN runTests'[id] = resolved
               /\ \A k \in resolved : runTests'[id][k].status = "pending"]_vars

\* an accepted request of a user written in another case, with a key that
\* was dropped, and after it a rejected one that left the tables alone
C20_Witness ==
  /\ lastOp.op = "post"
  /\ lastOp.out = "403"
  /\ lastOp.req.userEmail = "ANN@X"
  /\ lastOp.req.environment = "prod"
  /\ \E id \in DOMAIN runs :
       /\ runs[id].status = "queued"
       /\ runMeta[id].environment = "dev"
       /\ DOMAIN runTests[id] = activeTests
       /\ activeTests # TestKeys
       /\ activeTests # {}

\* C21: a discovery pass that finds no test leaves the catalog as it was.
C21_EmptyDiscoveryChangesNothing ==
  [][(lastOp'.op = "discovery" /\ Len(lastOp'.discovered) = 0)
       => catalog' = catalog /\ nextTestId' = nextTestId]_vars

C21_Witness ==
  /\ lastOp.op = "discovery"
  /\ Len(lastOp.discovered) = 0
  /\ \E id \in DOMAIN catalog : catalog[id].active

\* after a pass over the discovered list d, the rows that are active are
\* those whose key is at one of the positions in `counted`, and each such
\* key has an active row with the data of its last counted position
catalogReflects(cat, d, counted) ==
  LET seen == {d[i].testKey : i \in counted}
  IN /\ \A id \in DOMAIN cat : cat[id].active <=> cat[id].testKey \in seen
     /\ \A k \in seen :
          LET last == CHOOSE i \in counted :
                        d[i].testKey = k /\ \A j \in counted : d[j].testKey = k => j <= i
          IN \E id \in DOMAIN cat :
               /\ cat[id].testKey = k
               /\ cat[id].active
               /\ cat[id].folderPath = d[last].folderPath
               /\ cat[id].specPath = specPathOf(d[last])
               /\ JSONparse(cat[id].meta) = metaOf(d[last])
               /\ JSONparse(cat[id].constants) = constantsOf(d[last])

C23_DiscoveryKeepsOverrides ==
  [][/\ lastOp'.op = "discovery" =>
          /\ \A id \in DOMAIN catalog :
               id \in DOMAIN catalog' /\ catalog'[id].overrides = catalog[id].overrides
          /\ \A id \in DOMAIN catalog' \ DOMAIN catalog :
               catalog'[id].overrides = NoOverrides
     /\ (\E id \in DOMAIN catalog :
            id \notin DOMAIN catalog' \/ catalog'[id].overrides # catalog[id].overrides)
          => lastOp'.op = "overrides" /\ lastOp'.out = "200"]_vars

\* a pass moved a row that has overrides to another folder and deactivated
\* another row that has overrides
C23_Witness ==
  /\ lastOp.op = "discovery"
  /\ Len(lastOp.discovered) = 1
  /\ lastOp.discovered[1].upsertOk
  /\ \E i, j \in DOMAIN catalog :
       /\ catalog[i].testKey = lastOp.discovered[1].testKey
       /\ catalog[i].folderPath = "f2"
       /\ catalog[i].overrides = JSONstringify("o1")
       /\ catalog[j].active = FALSE
       /\ catalog[j].folderPath = "f1"
       /\ catalog[j].overrides = JSONstringify("o2")

\* C24: no two rows have the same testKey; a row keeps its id and its
\* testKey through every discovery pass and override request, and a pass
\* inserts a row only for a key that had none.
C24_TestKeyUnique ==
  /\ [](\A i, j \in DOMAIN catalog : catalog[i].testKey = catalog[j].testKey => i = j)
  /\ [][/\ \A id \in DOMAIN catalog :
             id \in DOMAIN catalog' /\ catalog'[id].testKey = catalog[id].testKey
        /\ \A id \in DOMAIN catalog' \ DOMAIN catalog :
             /\ lastOp'.op = "discovery"
             /\ getTestIdByKey(catalog, catalog'[id].testKey) = 0]_vars

\* a pass found a known key twice, in two folders, and the row kept its id
C24_Witness ==
  /\ lastOp.op = "discovery"
  /\ Len(lastOp.discovered) = 2
  /\ lastOp.discovered[1].testKey = lastOp.discovered[2].testKey
  /\ lastOp.discovered[1].upsertOk /\ lastOp.discovered[2].upsertOk
  /\ Cardinality(DOMAIN catalog) = 2
  /\ getTestIdByKey(catalog, lastOp.discovered[1].testKey) = 1
  /\ catalog[1].folderPath = lastOp.discovered[2].folderPath
  /\ catalog[1].overrides # NoOverrides

\* C25: a retention sweep removes every run that was older than
\* retentionDays when it started, removes with each run it deletes the
\* run's RunTest rows and, unless removing it failed, its directory, and
\* leaves every run that is within the window at its end as it was, with
\* its rows and its directory.
C25_SweepDeletesOldRunsWithArtifacts ==
  [][lastOp'.op = "cleanup" =>
       /\ \A id \in getOldRunIds(runs, lastOp'.start) : id \notin DOMAIN runs'
       /\ DOMAIN runTests' = DOMAIN runs'
       /\ \A id \in DOMAIN runs \ DOMAIN runs' :
            /\ id \in getOldRunIds(runs, clock')
            /\ id \in artifactDirs' => id \in lastOp'.rmFails
       /\ \A id \in DOMAIN runs \ getOldRunIds(runs, clock') :
            /\ id \in DOMAIN runs'
            /\ runs'[id] = runs[id]
            /\ runTests'[id] = runTests[id]
            /\ runMeta'[id] = runMeta[id]
            /\ id \in artifactDirs' <=> id \in artifactDirs]_vars

\* C26: deleting a schedule removes the schedule and clears the scheduleId
\* of the runs that referenced it; every run that existed still exists with
\* the same status, the same RunTest rows and the same other fields, and
\* the other schedules and the executors are untouched.
C26_DeleteScheduleKeepsRuns ==
  [][lastOp'.op = "deleteSchedule" /\ lastOp'.out = "200" =>
       /\ lastOp'.schedule \in DOMAIN schedules
       /\ DOMAIN schedules' = DOMAIN schedules \ {lastOp'.schedule}
       /\ \A s \in DOMAIN schedules' : schedules'[s] = schedules[s]
       /\ runs' = runs
       /\ runTests' = runTests
       /\ exec' = exec
       /\ DOMAIN runMeta' = DOMAIN runMeta
       /\ \A r \in DOMAIN runMeta :
            /\ runMeta'[r].environment = runMeta[r].environment
            /\ runMeta'[r].triggerType = runMeta[r].triggerType
            /\ runMeta'[r].scheduleId =
                 IF runMeta[r].scheduleId = lastOp'.schedule THEN NoScheduleId
                 ELSE runMeta[r].scheduleId]_vars

\* a schedule with a running run that has RunTest rows was deleted
C26_Witness ==
  /\ lastOp.op = "deleteSchedule"
  /\ lastOp.out = "200"
  /\ \E r \in DOMAIN runs :
       /\ runMeta[r].triggerType = "schedule"
       /\ runMeta[r].scheduleId = NoScheduleId
       /\ runs[r].status = "running"
       /\ DOMAIN runTests[r] # {}

\* a queue pass (an interval tick or the pass at start) hands run id to
\* the executor in this step
dispatches(id) == lastOp'.op \in {"tick", "start"} /\ lastOp'.run = id

\* C27: a run is dispatched at most once.  The pass that dispatches a run
\* finds it queued and never dispatched and leaves it out of `queued`
\* with one dispatch recorded; no step brings a run back to `queued`,
\* whatever cancel requests and test completions come between; and only a
\* dispatch starts a run.
C27_DispatchedAtMostOnce ==
  /\ [](\A id \in DOMAIN runs : runs[id].startedAt <= 1)
  /\ [][\A id \in DOMAIN runs :
          /\ dispatches(id) =>
               /\ runs[id].status = "queued" /\ runs[id].startedAt = 0
               /\ runs'[id].status # "queued" /\ runs'[id].startedAt = 1
          /\ runs[id].status # "queued" => runs'[id].status # "queued"
          /\ (runs'[id].startedAt # runs[id].startedAt \/ id \in DOMAIN exec' \ DOMAIN exec)
               => dispatches(id)]_vars

\* a tick with free capacity dispatched nothing although run id's executor
\* is still at work: the run was dispatched once and then cancelled
C27_Witness ==
  /\ lastOp.op = "tick"
  /\ lastOp.run = 0
  /\ countRunningRuns(runs) < maxConcurrentRuns
  /\ \E id \in DOMAIN exec : runs[id].status = "cancelled" /\ runs[id].startedAt = 1

\* the runs started in this step
startedNow == {id \in DOMAIN runs : runs'[id].startedAt # runs[id].startedAt}

driverFailed ==
  /\ lastOp'.op = "testDone"
  /\ lastOp'.out \in {"exit1", "spawnError"}
  /\ runs[lastOp'.run].status # "cancelled"

TerminalTestStatus == {"passed", "failed", "skipped"}

\* C30: within a run the tests execute one at a time in ascending key
\* order.  At every moment at most one RunTest of a run is `running`, and
\* when a RunTest enters `running` every RunTest of the same run with a
\* smaller key is terminal and every one with a larger key is pending.
C30_OneTestAtATimeInKeyOrder ==
  /\ [](\A id \in DOMAIN runTests :
          Cardinality({k \in DOMAIN runTests[id] : runTests[id][k].status = "running"}) <= 1)
  /\ [][\A id \in DOMAIN runTests : \A k \in DOMAIN runTests[id] :
          (runTests[id][k].status # "running" /\ runTests'[id][k].status = "running") =>
            /\ runTests[id][k].status = "pending"
            /\ \A o \in DOMAIN runTests[id] :
                 /\ o < k => runTests'[id][o].status \in TerminalTestStatus
                 /\ o > k => runTests'[id][o].status = "pending"]_vars

\* the second test of a run is running, the first one having finished
C30_Witness ==
  \E id \in DOMAIN runTests : \E k \in DOMAIN runTests[id] :
    /\ runTests[id][k].status = "running"
    /\ id \in DOMAIN exec
    /\ \E o \in DOMAIN runTests[id] : o < k /\ runTests[id][o].status \in {"passed", "failed"}

\* the number of tests the executor of run id has counted as skipped
skippedCount(ex, rs, id) ==
  IF id \in DOMAIN ex THEN ex[id].summary.skipped
  ELSE IF rs[id].summary.persisted THEN rs[id].summary.skipped
  ELSE 0

\* the RunTest rows of run id marked `skipped` for a missing definition in
\* this step, straight from `pending`
markedNotFound(id) ==
  {k \in DOMAIN runTests[id] \cap DOMAIN runTests'[id] :
     /\ runTests[id][k].status = "pending"
     /\ runTests'[id][k].status = "skipped"
     /\ runTests'[id][k].errorMessage = NotFoundMsg
     /\ ~runTests'[id][k].startedAt}

testTransitions ==
  UNION {{<<runTests[id][k].status, runTests'[id][k].status>> : k \in DOMAIN runTests[id]} :
           id \in DOMAIN runTests}
  \ {<<st, st>> : st \in {"pending", "running", "passed", "failed", "skipped"}}

\* C32 (as claimed): a RunTest changes status only along pending->running,
\* running->passed, running->failed and pending->skipped.
C32_TestLifecycle ==
  [][testTransitions \subseteq {<<"pending", "running">>, <<"running", "passed">>,
                                <<"running", "failed">>, <<"pending", "skipped">>}]_vars

\* C32 (amended): a RunTest changes status only along pending->running,
\* running->passed, running->failed, pending->skipped and, in start-up
\* recovery only, pending->failed; passed, failed and skipped are never
\* left and no row goes from pending to passed.
C32_TestLifecycleWithRecovery ==
  [][/\ testTransitions \subseteq {<<"pending", "running">>, <<"running", "passed">>,
                                   <<"running", "failed">>, <<"pending", "skipped">>,
                                   <<"pending", "failed">>}
     /\ <<"pending", "failed">> \in testTransitions => lastOp'.op = "recover"
     /\ \A id \in DOMAIN runTests : DOMAIN runTests'[id] = DOMAIN runTests[id]]_vars

\* after a restart a row is failed that never ran, next to one that was
\* running when the server stopped
C32_Witness ==
  /\ lastOp.op = "recover"
  /\ \E id \in DOMAIN runTests : \E k, o \in DOMAIN runTests[id] :
       /\ runTests[id][k].status = "failed" /\ ~runTests[id][k].startedAt
       /\ runTests[id][k].errorMessage = InterruptedMsg
       /\ runTests[id][o].status = "failed" /\ runTests[id][o].startedAt

\* C33: after every retention sweep, whether or not it found a run older
\* than the window, every run directory under the artifact root has a row
\* in the runs table, except a directory whose removal failed in that
\* sweep.
C33_SweepReapsOrphans ==
  [][lastOp'.op = "cleanup" =>
       \A id \in artifactDirs' : id \in DOMAIN runs' \/ id \in lastOp'.rmFails]_vars

resultRows(k, status) == flakyIn.table[[testKey |-> k, status |-> status, inWindow |-> TRUE]]

\* test k counts as flaky for a minimum of minExecutions executions
flakyFor(k, minExecutions) ==
  LET passed == resultRows(k, "passed")
      failed == resultRows(k, "failed")
      total == passed + failed
  IN /\ total >= minExecutions
     /\ passed > 0
     /\ failed > 0
     /\ 10 * total <= 100 * failed
     /\ 100 * failed <= 90 * total

\* C35: getFlakyTests returns a test key if and only if, over the passed
\* and failed rows of runs finished in the window, total >= minExecutions
\* (5 when the option is absent), passed > 0, failed > 0 and
\* 10 <= 100 * failed / total <= 90, both bounds included; the flaky count
\* of the overview is the number of such keys for minExecutions = 5.
C35_FlakyInclusive ==
  flakyOut.called =>
    /\ \A k \in FlakyKeys :
         k \in flakyOut.keys <=>
           flakyFor(k, IF flakyIn.minExecutions = 0 THEN DefaultMinExecutions
                       ELSE flakyIn.minExecutions)
    /\ flakyOut.count = Cardinality({k \in FlakyKeys : flakyFor(k, DefaultMinExecutions)})

\* a test with exactly minExecutions executions and exactly 10% of them
\* failed is returned
C35_Witness ==
  /\ flakyOut.called
  /\ "a" \in flakyOut.keys
  /\ flakyIn.minExecutions = resultRows("a", "passed") + resultRows("a", "failed")
  /\ 100 * resultRows("a", "failed")
       = 10 * (resultRows("a", "passed") + resultRows("a", "failed"))
  /\ resultRows("a", "skipped") = 1

\* C36: terminal run statuses are absorbing: a run that is `passed`,
\* `failed` or `cancelled` keeps its status and its finishedAt in every
\* later step.
C36_TerminalRunAbsorbing ==
  [][\A id \in DOMAIN runs :
       runs[id].status \in TerminalRunStatus =>
         /\ runs'[id].status = runs[id].status
         /\ runs'[id].finishedAt = runs[id].finishedAt]_vars

\* C37: every RunTest that is `passed`, `failed` or `skipped` has finishedAt
\* set.
C37_TerminalTestHasFinishedAt ==
  \A id \in DOMAIN runTests : \A k \in DOMAIN runTests[id] :
    runTests[id][k].status \in TerminalTestStatus => runTests[id][k].finishedAt

\* C38: once a log poll has returned finished=true, console.log is never
\* appended to again, and the client that stops polling then has received
\* the complete log.
C38_LogCompleteWhenFinished ==
  /\ [](logPoll.finished => logPoll.received = utf8Decode(logFile.bytes))
  /\ [][logPoll.finished => logFile' = logFile]_vars

\* C39: under fair scheduling of the queue ticks, and with every driver
\* subprocess eventually exiting, every run that is `queued` eventually
\* reaches a terminal status (passed, failed or cancelled).
C39_QueuedRunTerminates ==
  \A id \in RunIds :
    (id \in DOMAIN runs /\ runs[id].status = "queued")
      ~> (id \in DOMAIN runs /\ runs[id].status \in TerminalRunStatus)

\* the runs of which a step removes the row, the RunTest rows or the
\* artifact directory
removedRuns ==
  {id \in DOMAIN runs :
     \/ id \notin DOMAIN runs'
     \/ id \notin DOMAIN runTests'
     \/ id \in artifactDirs /\ id \notin artifactDirs'}

====
